---- MODULE Spec2Model ----
(***************************************************************************)
(* The track store of the NCS downloader: TrackDatabase                    *)
(* (src/data/downloader_v2.py), the download pipeline that feeds it, and   *)
(* DatabaseManager (src/data/data_manager.py), which works on the same     *)
(* persisted JSON file.                                                    *)
(*                                                                         *)
(* Strings are sequences of one-character strings, so that lower(), the    *)
(* slug regexes and the counter suffix are computed character by           *)
(* character.  An Optional value is <<>> (None) or <<v>>.                  *)
(***************************************************************************)
EXTENDS Integers, Sequences, FiniteSets, TLC

(***************************************************************************)
(* Bounds of the model.                                                    *)
(***************************************************************************)
\* the number of add_track / update_track calls of a run (each reads the clock)
MaxClock == 3

\* the number of records the download pipeline adds
MaxDownloads == 2

(***************************************************************************)
(* Optional values.                                                        *)
(***************************************************************************)
None == <<>>
Some(v) == <<v>>

(***************************************************************************)
(* Characters and strings.                                                 *)
(***************************************************************************)
\* the letters A-Z and a-z, in order
Upper ==
    <<"A", "B", "C", "D", "E", "F", "G", "H", "I", "J", "K", "L", "M", "N", "O", "P", "Q",
      "R", "S", "T", "U", "V", "W", "X", "Y", "Z">>

LowerLetters ==
    <<"a", "b", "c", "d", "e", "f", "g", "h", "i", "j", "k", "l", "m", "n", "o", "p", "q",
      "r", "s", "t", "u", "v", "w", "x", "y", "z">>

DigitChars == <<"0", "1", "2", "3", "4", "5", "6", "7", "8", "9">>

\* str.lower() on one character
LowerChar(c) ==
    IF \E i \in 1..26 : Upper[i] = c
    THEN LowerLetters[CHOOSE i \in 1..26 : Upper[i] = c]
    ELSE c

\* str.lower()
Lower(s) == [i \in 1..Len(s) |-> LowerChar(s[i])]

\* the character class [a-zA-Z0-9]
IsAlnum(c) ==
    \/ \E i \in 1..26 : c = Upper[i] \/ c = LowerLetters[i]
    \/ \E i \in 1..10 : c = DigitChars[i]

\* re.sub(r'[^a-zA-Z0-9]', '_', s)
SubNonAlnum(s) == [i \in 1..Len(s) |-> IF IsAlnum(s[i]) THEN s[i] ELSE "_"]

\* re.sub(r'_+', '_', s)
RECURSIVE CollapseUnderscores(_)
CollapseUnderscores(s) ==
    IF Len(s) <= 1 THEN s
    ELSE IF s[1] = "_" /\ s[2] = "_" THEN CollapseUnderscores(Tail(s))
    ELSE <<s[1]>> \o CollapseUnderscores(Tail(s))

\* str.lstrip('_')
RECURSIVE LStrip(_)
LStrip(s) == IF s # <<>> /\ s[1] = "_" THEN LStrip(Tail(s)) ELSE s

\* str.rstrip('_')
RECURSIVE RStrip(_)
RStrip(s) ==
    IF s # <<>> /\ s[Len(s)] = "_" THEN RStrip(SubSeq(s, 1, Len(s) - 1)) ELSE s

\* str.strip('_')
Strip(s) == RStrip(LStrip(s))

\* str(n) for a counter n >= 0
RECURSIVE Str(_)
Str(n) ==
    IF n < 10 THEN <<DigitChars[n + 1]>>
    ELSE Str(n \div 10) \o <<DigitChars[(n % 10) + 1]>>

\* the f-string prefix "track_", kept as one token
Prefix == <<"track_">>

(***************************************************************************)
(* Candidate tracks (the Track dataclass).                                 *)
(***************************************************************************)
PayloadPaths == {<<"p", "1">>}

Track(title, url, file_path) ==
    [title |-> title, artists |-> <<"Artist">>, genres |-> <<"House">>,
     url |-> url, download_url |-> None, publish_date |-> None,
     credit_info |-> None, file_size |-> None, file_path |-> file_path]

\* the candidates the callers pass: same title, title differing in case only,
\* same title from another page, and a title, " A -1!", whose slug is "a_1"
Tracks ==
    {Track(<<"a">>, "u1", Some(<<"p", "1">>)), Track(<<"A">>, "u1", Some(<<"p", "1">>)),
     Track(<<"a">>, "u2", None), Track(<<" ", "A", " ", "-", "1", "!">>, "u1", None)}

\* the candidates of the runs that exercise the saves
SaveTracks == {Track(<<"a">>, "u1", Some(<<"p", "1">>)), Track(<<"a">>, "u2", None)}

(***************************************************************************)
(* The in-memory structure self.data.  data["tracks"] is a dict: its keys  *)
(* in insertion order (keys) and the record of each key (recs).            *)
(***************************************************************************)
EmptyMap == [t |-> "map", keys |-> <<>>, recs |-> <<>>]
EmptyData == [top |-> "dict", has_tracks |-> TRUE, tracks |-> EmptyMap]

\* self.data is a dict whose "tracks" entry is a dict
WellFormed(d) == d.top = "dict" /\ d.has_tracks /\ d.tracks.t = "map"

KeySet(d) == DOMAIN d.tracks.recs

VARIABLES
    data,      \* TrackDatabase.data
    mdata,     \* DatabaseManager.data
    file,      \* the persisted file db_path
    backup,    \* the sibling file db_path.with_suffix('.backup.json')
    files,     \* the payload files that exist on disk
    now,       \* datetime.now()
    pc,        \* position inside TrackDatabase.save_database
    prev,      \* contents of the persisted file when the last stepwise save began
    issued,    \* ids returned by add_track so far
    removed,   \* ids removed by cleanup_database so far
    dry_run,   \* EnhancedNCSDownloader.dry_run
    other,     \* the store of a second TrackDatabase opened on the same path
    ret        \* the last call: its name, argument, result and outcome

vars ==
    <<data, mdata, file, backup, files, now, pc, prev, issued, removed, dry_run, other, ret>>

Absent == [kind |-> "absent"]

Ret(op, arg, val, raised, io) ==
    [op |-> op, arg |-> arg, val |-> val, raised |-> raised, io |-> io]

(***************************************************************************)
(* TrackDatabase.generate_track_id                                         *)
(***************************************************************************)
BaseId(title) == Strip(CollapseUnderscores(SubNonAlnum(Lower(title))))

\* the while loop: track_id is the current candidate, counter the next suffix
RECURSIVE UniqueLoop(_, _, _, _)
UniqueLoop(d, base_id, track_id, counter) ==
    IF (Prefix \o track_id) \in KeySet(d)
    THEN UniqueLoop(d, base_id, base_id \o <<"_">> \o Str(counter), counter + 1)
    ELSE Prefix \o track_id

\* a generator that appends "_1" once instead of looping until the key is free
GenerateTrackIdOnce(d, track) ==
    IF (Prefix \o BaseId(track.title)) \in KeySet(d)
    THEN Prefix \o BaseId(track.title) \o <<"_">> \o Str(1)
    ELSE Prefix \o BaseId(track.title)

GenerateTrackId(d, track) == UniqueLoop(d, BaseId(track.title), BaseId(track.title), 1)

(***************************************************************************)
(* TrackDatabase.add_track                                                 *)
(***************************************************************************)
\* track.download_url or track.url
UrlOf(track) == IF track.download_url # None THEN track.download_url[1] ELSE track.url

TrackData(track, t) ==
    [title |-> track.title, genres |-> track.genres, artists |-> track.artists,
     url |-> UrlOf(track), publish_date |-> track.publish_date,
     original_url |-> track.url, credit_info |-> track.credit_info,
     file_path |-> track.file_path, file_size |-> track.file_size,
     download_timestamp |-> t, last_updated |-> t]

\* an assignment that drops every other entry of the dict
SetItemAlone(m, key, value) ==
    [t |-> "map", keys |-> <<key>>, recs |-> [k \in {key} |-> value]]

\* d["tracks"][key] = value
SetItem(m, key, value) ==
    [t |-> "map",
     keys |-> IF key \in DOMAIN m.recs THEN m.keys ELSE Append(m.keys, key),
     recs |-> [k \in DOMAIN m.recs \cup {key} |->
                 IF k = key THEN value ELSE m.recs[k]]]

AddTrack(track) ==
    /\ pc = "idle"
    /\ WellFormed(data)
    /\ now < MaxClock
    /\ LET track_id == GenerateTrackId(data, track) IN
         /\ data' = [data EXCEPT !.tracks = SetItem(@, track_id, TrackData(track, now))]
         /\ issued' = issued \cup {track_id}
         /\ ret' = Ret("add_track", track, Some(track_id), "none", "none")
    /\ now' = now + 1
    /\ UNCHANGED <<mdata, file, backup, files, pc, prev, removed, dry_run, other>>

(***************************************************************************)
(* TrackDatabase.track_exists                                              *)
(***************************************************************************)
\* the for loop over data["tracks"].items(), from position i
RECURSIVE ExistsLoop(_, _, _)
ExistsLoop(m, track, i) ==
    IF i > Len(m.keys) THEN None
    ELSE IF /\ Lower(m.recs[m.keys[i]].title) = Lower(track.title)
            /\ m.recs[m.keys[i]].original_url = track.url
         THEN Some(m.keys[i])
         ELSE ExistsLoop(m, track, i + 1)

\* a lookup that compares the titles as they are, without lower()
RECURSIVE ExistsLoopCaseSensitive(_, _, _)
ExistsLoopCaseSensitive(m, track, i) ==
    IF i > Len(m.keys) THEN None
    ELSE IF /\ m.recs[m.keys[i]].title = track.title
            /\ m.recs[m.keys[i]].original_url = track.url
         THEN Some(m.keys[i])
         ELSE ExistsLoopCaseSensitive(m, track, i + 1)

TrackExistsCaseSensitive(d, track) == ExistsLoopCaseSensitive(d.tracks, track, 1)

TrackExistsResult(d, track) == ExistsLoop(d.tracks, track, 1)

TrackExists(track) ==
    /\ pc = "idle"
    /\ WellFormed(data)
    /\ ret' = Ret("track_exists", track, TrackExistsResult(data, track), "none", "none")
    /\ UNCHANGED <<data, mdata, file, backup, files, now, pc, prev, issued, removed,
                   dry_run, other>>

(***************************************************************************)
(* json.dump / json.load.  A JSON object is the sequence of its members    *)
(* <<name, value>> in the order the dict yields them; loading an object    *)
(* builds the dict again (a repeated name keeps its last value).           *)
(***************************************************************************)
\* the keys of track_data, in the order add_track inserts them
FieldOrder ==
    <<"title", "genres", "artists", "url", "publish_date", "original_url",
      "credit_info", "file_path", "file_size", "download_timestamp", "last_updated">>

\* a dump that writes every key but original_url
DumpRecordWithoutOriginalUrl(r) ==
    SelectSeq([i \in 1..Len(FieldOrder) |-> <<FieldOrder[i], r[FieldOrder[i]]>>],
              LAMBDA member : member[1] # "original_url")

DumpRecord(r) == [i \in 1..Len(FieldOrder) |-> <<FieldOrder[i], r[FieldOrder[i]]>>]

LoadObject(members) ==
    [name \in {members[i][1] : i \in 1..Len(members)} |->
       members[CHOOSE i \in 1..Len(members) :
                 /\ members[i][1] = name
                 /\ \A j \in (i + 1)..Len(members) : members[j][1] # name][2]]

\* the names of an object in first-appearance order
RECURSIVE KeyOrder(_, _)
KeyOrder(members, seen) ==
    IF members = <<>> THEN <<>>
    ELSE IF members[1][1] \in seen THEN KeyOrder(Tail(members), seen)
    ELSE <<members[1][1]>> \o KeyOrder(Tail(members), seen \cup {members[1][1]})

DumpTracks(m) ==
    IF m.t = "map"
    THEN [t |-> "map",
          items |-> [i \in 1..Len(m.keys) |-> <<m.keys[i], DumpRecord(m.recs[m.keys[i]])>>]]
    ELSE m

LoadTracks(j) ==
    IF j.t = "map"
    THEN [t |-> "map",
          keys |-> KeyOrder(j.items, {}),
          recs |-> [k \in {j.items[i][1] : i \in 1..Len(j.items)} |->
                      LoadObject(LoadObject(j.items)[k])]]
    ELSE j

\* json.dump(self.data, f): the complete text of the file
JsonDump(d) ==
    [kind |-> "json", top |-> d.top, has_tracks |-> d.has_tracks,
     tracks |-> DumpTracks(d.tracks)]

\* json.load(f) of a parseable file
JsonLoad(f) ==
    [top |-> f.top, has_tracks |-> f.has_tracks, tracks |-> LoadTracks(f.tracks)]

\* a file that exists but does not parse: empty, truncated or not JSON
Garbage == [kind |-> "garbage"]

(***************************************************************************)
(* TrackDatabase.__init__ + load_database                                  *)
(***************************************************************************)
LoadTrackDatabase(f) ==
    IF f.kind = "absent" THEN EmptyData
    ELSE IF f.kind = "garbage" THEN EmptyData                \* json.load raises
    ELSE IF f.top # "dict" THEN EmptyData                    \* TypeError, caught
    ELSE IF ~f.has_tracks THEN [JsonLoad(f) EXCEPT !.has_tracks = TRUE, !.tracks = EmptyMap]
    ELSE IF f.tracks.t = "null" THEN EmptyData               \* len(None) raises
    ELSE JsonLoad(f)

\* a construction that starts from an empty store whatever the file holds
ReopenDbEmpty ==
    /\ pc = "idle"
    /\ data' = EmptyData
    /\ ret' = Ret("load_database", None, None, "none", "none")
    /\ UNCHANGED <<mdata, file, backup, files, now, pc, prev, issued, removed, dry_run, other>>

ReopenDb ==
    /\ pc = "idle"
    /\ data' = LoadTrackDatabase(file)
    /\ ret' = Ret("load_database", None, None, "none", "none")
    /\ UNCHANGED <<mdata, file, backup, files, now, pc, prev, issued, removed, dry_run, other>>

(***************************************************************************)
(* TrackDatabase.save_database, step by step: the rename of the old file   *)
(* to the backup, open(db_path, 'w'), json.dump.  Each step may raise; the *)
(* except clause logs and the method returns None either way.              *)
(***************************************************************************)
\* a save that opens the file for writing without renaming the old one first
SaveRenameNoBackup ==
    /\ pc = "idle"
    /\ prev' = file
    /\ pc' = "save_renamed"
    /\ ret' = Ret("save_database", None, None, "none", "running")
    /\ UNCHANGED <<data, mdata, file, backup, files, now, issued, removed, dry_run, other>>

\* a save that unlinks the old file instead of renaming it
SaveRenameUnlinks ==
    /\ pc = "idle"
    /\ prev' = file
    /\ file' = Absent
    /\ pc' = "save_renamed"
    /\ ret' = Ret("save_database", None, None, "none", "running")
    /\ UNCHANGED <<data, mdata, backup, files, now, issued, removed, dry_run, other>>

SaveRename ==
    /\ pc = "idle"
    /\ prev' = file
    /\ IF file.kind # "absent"
       THEN backup' = file /\ file' = Absent
       ELSE UNCHANGED <<file, backup>>
    /\ pc' = "save_renamed"
    /\ ret' = Ret("save_database", None, None, "none", "running")
    /\ UNCHANGED <<data, mdata, files, now, issued, removed, dry_run, other>>

SaveRenameFails ==
    /\ pc = "idle"
    /\ file.kind # "absent"
    /\ prev' = file
    /\ ret' = Ret("save_database", None, None, "none", "failed")
    /\ UNCHANGED <<data, mdata, file, backup, files, now, pc, issued, removed, dry_run, other>>

SaveOpen ==
    /\ pc = "save_renamed"
    /\ file' = Garbage
    /\ pc' = "save_opened"
    /\ UNCHANGED <<data, mdata, backup, files, now, prev, issued, removed, ret, dry_run,
                   other>>

SaveOpenFails ==
    /\ pc = "save_renamed"
    /\ pc' = "idle"
    /\ ret' = Ret("save_database", None, None, "none", "failed")
    /\ UNCHANGED <<data, mdata, file, backup, files, now, prev, issued, removed, dry_run,
                   other>>

\* a save that writes the store of the other instance
SaveWriteOther ==
    /\ pc = "save_opened"
    /\ file' = JsonDump(other)
    /\ pc' = "idle"
    /\ ret' = Ret("save_database", None, None, "none", "ok")
    /\ UNCHANGED <<data, mdata, backup, files, now, prev, issued, removed, dry_run, other>>

SaveWrite ==
    /\ pc = "save_opened"
    /\ file' = JsonDump(data)
    /\ pc' = "idle"
    /\ ret' = Ret("save_database", None, None, "none", "ok")
    /\ UNCHANGED <<data, mdata, backup, files, now, prev, issued, removed, dry_run, other>>

SaveWriteFails ==
    /\ pc = "save_opened"
    /\ file' = Garbage
    /\ pc' = "idle"
    /\ ret' = Ret("save_database", None, None, "none", "failed")
    /\ UNCHANGED <<data, mdata, backup, files, now, prev, issued, removed, dry_run, other>>

(***************************************************************************)
(* TrackDatabase.update_track                                              *)
(***************************************************************************)
\* an update that passes original_url and download_timestamp as well
UpdatedDataWithOrigin(old, track, t) ==
    [old EXCEPT !.title = track.title, !.genres = track.genres,
                !.artists = track.artists, !.url = UrlOf(track),
                !.publish_date = track.publish_date,
                !.original_url = track.url,
                !.credit_info = track.credit_info,
                !.file_path = track.file_path, !.file_size = track.file_size,
                !.download_timestamp = t, !.last_updated = t]

\* dict.update() with the nine keys update_track passes
UpdatedData(old, track, t) ==
    [old EXCEPT !.title = track.title, !.genres = track.genres,
                !.artists = track.artists, !.url = UrlOf(track),
                !.publish_date = track.publish_date,
                !.credit_info = track.credit_info,
                !.file_path = track.file_path, !.file_size = track.file_size,
                !.last_updated = t]

\* the tracks callers pass to update_track
UpdateTracks ==
    {Track(<<"B">>, "u2", None), Track(<<"a">>, "u1", Some(<<"p", "1">>))}

\* the ids callers pass to update_track: some stored, some not
UpdateIds(d) == KeySet(d) \cup {Prefix \o BaseId(track.title) : track \in UpdateTracks}

\* the branch taken when track_id is a key
UpdateTrackPresent(track_id, track) ==
    /\ track_id \in KeySet(data)
    /\ now < MaxClock
    /\ data' = [data EXCEPT !.tracks.recs[track_id] = UpdatedData(@, track, now)]
    /\ now' = now + 1

\* an update that inserts the record when the id is not a key
UpdateTrackUpsert(track_id, track) ==
    /\ track_id \notin KeySet(data)
    /\ now < MaxClock
    /\ data' = [data EXCEPT !.tracks = SetItem(@, track_id, TrackData(track, now))]
    /\ now' = now + 1

\* no else branch: nothing is done, nothing is raised
UpdateTrackAbsent(track_id, track) ==
    /\ track_id \notin KeySet(data)
    /\ UNCHANGED <<data, now, dry_run, other>>

UpdateTrack(track_id, track) ==
    /\ pc = "idle"
    /\ WellFormed(data)
    /\ \/ UpdateTrackPresent(track_id, track)
       \/ UpdateTrackAbsent(track_id, track)
    /\ ret' = Ret("update_track", track_id, None, "none", "none")
    /\ UNCHANGED <<mdata, file, backup, files, pc, prev, issued, removed, dry_run, other>>

(***************************************************************************)
(* DatabaseManager.__init__ + load_database                                *)
(***************************************************************************)
LoadDatabaseManager(f) ==
    IF f.kind = "absent" THEN EmptyData
    ELSE IF f.kind = "garbage" THEN EmptyData                \* json.load raises
    ELSE IF f.top # "dict" THEN EmptyData                    \* no .get, caught
    ELSE IF f.has_tracks /\ f.tracks.t = "null" THEN EmptyData  \* len(None) raises
    ELSE JsonLoad(f)

OpenManager ==
    /\ pc = "idle"
    /\ mdata' = LoadDatabaseManager(file)
    /\ ret' = Ret("mgr_load_database", None, None, "none", "none")
    /\ UNCHANGED <<data, file, backup, files, now, pc, prev, issued, removed, dry_run, other>>

(***************************************************************************)
(* DatabaseManager.cleanup_database (and the save_database it calls)       *)
(***************************************************************************)
\* a test that also counts a record without a file_path as missing
FileMissingOrNone(rec, disk) ==
    IF rec.file_path = None THEN TRUE ELSE rec.file_path[1] \notin disk

\* if file_path: if not Path(file_path).exists()
FileMissing(rec, disk) == rec.file_path # None /\ rec.file_path[1] \notin disk

\* tracks_to_remove, in iteration order
TracksToRemove(m, disk) == SelectSeq(m.keys, LAMBDA k : FileMissing(m.recs[k], disk))

Range(s) == {s[i] : i \in 1..Len(s)}

\* del self.data["tracks"][track_id] for every track_id of gone
DelItems(m, gone) ==
    [t |-> "map",
     keys |-> SelectSeq(m.keys, LAMBDA k : k \notin Range(gone)),
     recs |-> [k \in DOMAIN m.recs \ Range(gone) |-> m.recs[k]]]

CleanupStats(m, disk) ==
    [total |-> Len(m.keys), missing_files |-> Len(TracksToRemove(m, disk)),
     removed |-> Len(TracksToRemove(m, disk))]

\* the exception data["tracks"].items() raises, "none" when it does not
TracksAccess(d) ==
    IF ~d.has_tracks THEN "KeyError"
    ELSE IF d.tracks.t # "map" THEN "AttributeError"
    ELSE "none"

\* a cleanup that saves whether or not it removed anything
CleanupAlwaysSaves(d, write_ok) ==
    /\ pc = "idle"
    /\ TracksAccess(d) = "none"
    /\ LET gone == TracksToRemove(d.tracks, files)
           cleaned == [d EXCEPT !.tracks = DelItems(@, gone)]
       IN /\ mdata' = cleaned
          /\ removed' = removed \cup Range(gone)
          /\ prev' = file
          /\ file' = IF write_ok THEN JsonDump(cleaned) ELSE Garbage
          /\ ret' = Ret("cleanup_database", None,
                        Some(CleanupStats(d.tracks, files)), "none",
                        IF write_ok THEN "ok" ELSE "failed")
    /\ UNCHANGED <<data, backup, files, now, pc, issued, dry_run, other>>

\* cleanup_database on the structure d the manager holds
Cleanup(d, write_ok) ==
    /\ pc = "idle"
    /\ TracksAccess(d) = "none"
    /\ LET gone == TracksToRemove(d.tracks, files)
           cleaned == [d EXCEPT !.tracks = DelItems(@, gone)]
       IN /\ mdata' = cleaned
          /\ removed' = removed \cup Range(gone)
          /\ IF gone # <<>>
             THEN /\ prev' = file
                  /\ file' = IF write_ok THEN JsonDump(cleaned) ELSE Garbage
                  /\ ret' = Ret("cleanup_database", None,
                                Some(CleanupStats(d.tracks, files)), "none",
                                IF write_ok THEN "ok" ELSE "failed")
             ELSE /\ write_ok
                  /\ UNCHANGED <<prev, file>>
                  /\ ret' = Ret("cleanup_database", None,
                                Some(CleanupStats(d.tracks, files)), "none", "none")
    /\ UNCHANGED <<data, backup, files, now, pc, issued, dry_run, other>>

\* cleanup_database on a manager opened earlier
CleanupDatabase == Cleanup(mdata, TRUE)

\* self.data["tracks"] cannot be iterated: the exception reaches the caller
CleanupDatabaseRaises ==
    /\ pc = "idle"
    /\ TracksAccess(mdata) # "none"
    /\ ret' = Ret("cleanup_database", None, None, TracksAccess(mdata), "none")
    /\ UNCHANGED <<data, mdata, file, backup, files, now, pc, prev, issued, removed,
                   dry_run, other>>

\* the "cleanup" subcommand: DatabaseManager(args.db), then cleanup_database()
CleanupCommand == Cleanup(LoadDatabaseManager(file), TRUE)

\* the same, when the write of DatabaseManager.save_database raises: the
\* exception is printed, not re-raised
CleanupCommandWriteFails == Cleanup(LoadDatabaseManager(file), FALSE)

(***************************************************************************)
(* The environment: a payload file disappears from the download directory. *)
(***************************************************************************)
DeletePayload(p) ==
    /\ pc = "idle"
    /\ p \in files
    /\ files' = files \ {p}
    /\ UNCHANGED <<data, mdata, file, backup, now, pc, prev, issued, removed, ret,
                   dry_run, other>>

(***************************************************************************)
(* Calls on a TrackDatabase whose data["tracks"] is not a dict (a list     *)
(* that load_database let through): the exception reaches the caller.      *)
(***************************************************************************)
\* self.data["tracks"][track_id] = track_data on a list: TypeError
AddTrackRaises(track) ==
    /\ pc = "idle"
    /\ ~WellFormed(data)
    /\ ret' = Ret("add_track", track, None, "TypeError", "none")
    /\ UNCHANGED <<data, mdata, file, backup, files, now, pc, prev, issued, removed,
                   dry_run, other>>

\* self.data["tracks"].items() on a list: AttributeError
TrackExistsRaises(track) ==
    /\ pc = "idle"
    /\ TracksAccess(data) # "none"
    /\ ret' = Ret("track_exists", track, None, TracksAccess(data), "none")
    /\ UNCHANGED <<data, mdata, file, backup, files, now, pc, prev, issued, removed,
                   dry_run, other>>

(***************************************************************************)
(* Persisted files a load can meet: none, an unparseable one, JSON that is *)
(* not an object, an object without "tracks", with "tracks": null, with    *)
(* "tracks": [], and the dumps of well-formed stores.                      *)
(***************************************************************************)
JsonFile(top, has_tracks, t) ==
    [kind |-> "json", top |-> top, has_tracks |-> has_tracks, tracks |-> [t |-> t]]

MalformedFiles ==
    {Garbage, JsonFile("list", FALSE, "missing"), JsonFile("dict", FALSE, "missing"),
     JsonFile("dict", TRUE, "null"), JsonFile("dict", TRUE, "list")}

StoreOf(track) ==
    [EmptyData EXCEPT !.tracks = SetItem(@, Prefix \o BaseId(track.title), TrackData(track, 0))]

LoadFiles ==
    {Absent} \cup MalformedFiles \cup {JsonDump(EmptyData)}
      \cup {JsonDump(StoreOf(track)) : track \in SaveTracks}

\* the file does not hold an object with a "tracks" object
Malformed(f) ==
    \/ f.kind = "garbage"
    \/ f.kind = "json" /\ ~(f.top = "dict" /\ f.has_tracks /\ f.tracks.t = "map")

Init ==
    /\ data = EmptyData
    /\ mdata = EmptyData
    /\ file = Absent
    /\ backup = Absent
    /\ files = PayloadPaths
    /\ now = 0
    /\ pc = "idle"
    /\ prev = Absent
    /\ issued = {}
    /\ removed = {}
    /\ dry_run = FALSE
    /\ other = EmptyData
    /\ ret = Ret("init", None, None, "none", "none")

\* TrackDatabase.save_database when no step raises
SaveDatabase == SaveRename \/ SaveOpen \/ SaveWrite

\* TrackDatabase.save_database when a step raises
SaveDatabaseFails == SaveRenameFails \/ SaveOpenFails \/ SaveWriteFails

(***************************************************************************)
(* Spec: one TrackDatabase, the persisted file, and the cleanup command.   *)
(***************************************************************************)
Next ==
    \/ \E track \in Tracks : AddTrack(track)
    \/ SaveRename \/ SaveOpen \/ SaveWrite
    \/ ReopenDb
    \/ CleanupCommand
    \/ \E p \in PayloadPaths : DeletePayload(p)

Spec == Init /\ [][Next]_vars

(***************************************************************************)
(* SpecUpdate: add_track and update_track on one TrackDatabase, saved and  *)
(* loaded again.                                                           *)
(***************************************************************************)
NextUpdate ==
    \/ \E track \in Tracks : AddTrack(track)
    \/ \E track \in UpdateTracks : \E track_id \in UpdateIds(data) :
          UpdateTrack(track_id, track)
    \/ SaveRename \/ SaveOpen \/ SaveWrite
    \/ ReopenDb

SpecUpdate == Init /\ [][NextUpdate]_vars

(***************************************************************************)
(* SpecCycle: TrackDatabase instances on one path, one after another: each *)
(* is constructed, which loads the file, adds tracks and saves, and the    *)
(* next is constructed only when the save has returned.                    *)
(***************************************************************************)
NextCycle ==
    \/ (ret.op = "init" \/ (ret.op = "save_database" /\ ret.io = "ok")) /\ ReopenDb
    \/ ret.op \in {"load_database", "add_track"} /\ \E track \in Tracks : AddTrack(track)
    \/ ret.op = "add_track" /\ SaveRename
    \/ SaveOpen
    \/ SaveWrite

SpecCycle == Init /\ [][NextCycle]_vars

(***************************************************************************)
(* SpecShared: two TrackDatabase instances constructed on one path, their  *)
(* add_track and save_database calls serialised by a lock held for one     *)
(* call at a time.  data is the store of the instance that holds the lock, *)
(* other the store of the one that waits.                                  *)
(***************************************************************************)
\* the lock passes to the other instance between two calls
SwitchInstance ==
    /\ pc = "idle"
    /\ data' = other
    /\ other' = data
    /\ ret' = Ret("switch", None, None, "none", "none")
    /\ UNCHANGED <<mdata, file, backup, files, now, prev, pc, issued, removed, dry_run>>

NextShared ==
    \/ \E track \in Tracks : AddTrack(track)
    \/ SaveRename \/ SaveOpen \/ SaveWrite
    \/ SwitchInstance

SpecShared == Init /\ [][NextShared]_vars

(***************************************************************************)
(* SpecExists: track_exists asked of the stores add_track and update_track *)
(* build.                                                                  *)
(***************************************************************************)
NextExists ==
    \/ \E track \in Tracks : AddTrack(track)
    \/ \E track \in UpdateTracks : \E track_id \in UpdateIds(data) :
          UpdateTrack(track_id, track)
    \/ \E track \in Tracks \cup UpdateTracks : TrackExists(track)

SpecExists == Init /\ [][NextExists]_vars

(***************************************************************************)
(* SpecSave: the saves of both classes, with the steps that can raise.     *)
(***************************************************************************)
NextSave ==
    \/ \E track \in SaveTracks : AddTrack(track)
    \/ SaveRename \/ SaveOpen \/ SaveWrite
    \/ SaveRenameFails \/ SaveOpenFails \/ SaveWriteFails
    \/ ReopenDb
    \/ CleanupCommand
    \/ CleanupCommandWriteFails
    \/ \E p \in PayloadPaths : DeletePayload(p)

SpecSave == Init /\ [][NextSave]_vars

(***************************************************************************)
(* SpecLoad: both classes opened on files of every kind, and then used.    *)
(***************************************************************************)
InitLoad ==
    /\ data = EmptyData
    /\ mdata = EmptyData
    /\ file \in LoadFiles
    /\ backup = Absent
    /\ files = PayloadPaths
    /\ now = 1
    /\ pc = "idle"
    /\ prev = Absent
    /\ issued = {}
    /\ removed = {}
    /\ dry_run = FALSE
    /\ other = EmptyData
    /\ ret = Ret("init", None, None, "none", "none")

NextLoad ==
    \/ ReopenDb
    \/ OpenManager
    \/ \E track \in SaveTracks : AddTrack(track)
    \/ \E track \in SaveTracks : AddTrackRaises(track)
    \/ \E track \in SaveTracks : TrackExists(track)
    \/ \E track \in SaveTracks : TrackExistsRaises(track)
    \/ SaveRename \/ SaveOpen \/ SaveWrite
    \/ CleanupDatabase
    \/ CleanupDatabaseRaises
    \/ \E p \in PayloadPaths : DeletePayload(p)

SpecLoad == InitLoad /\ [][NextLoad]_vars

(***************************************************************************)
(* The download pipeline of EnhancedNCSDownloader.                         *)
(***************************************************************************)
\* invalid_chars of sanitize_filename and the whitespace of [_\s]+
InvalidChars == {"<", ">", ":", "\"", "/", "\\", "|", "?", "*"}

SubInvalid(s) ==
    [i \in 1..Len(s) |-> IF s[i] \in InvalidChars \cup {" "} THEN "_" ELSE s[i]]

\* replace(char, '_') for every invalid char, then re.sub(r'[_\s]+', '_', ...);
\* the names of the model stay under the 200 characters of the truncation
SanitizeFilename(filename) == CollapseUnderscores(SubInvalid(filename))

\* "_".join(track.artists[:2]) if track.artists else "Unknown"
ArtistStr(artists) ==
    IF artists = <<>> THEN <<"Unknown">>
    ELSE IF Len(artists) = 1 THEN <<artists[1]>>
    ELSE <<artists[1], "_", artists[2]>>

\* download_dir / sanitize_filename(f"{artist_str} - {track.title}.mp3")
FilePath(track) ==
    SanitizeFilename(ArtistStr(track.artists) \o <<" ", "-", " ">> \o track.title \o <<".mp3">>)

\* the tracks discovery yields: a title, the same title in another case, and
\* the same title on another page
Discovered ==
    {Track(<<"a">>, "u1", None), Track(<<"A">>, "u1", None), Track(<<"a">>, "u2", None)}

\* what get_track_details_enhanced finds on the page: a title and a download
\* link, or nothing (no link, or the exception branch: both leave the track
\* without a download_url)
Pages ==
    {[ok |-> FALSE, title |-> <<>>, download_url |-> None]} \cup
    {[ok |-> TRUE, title |-> t, download_url |-> Some("d")] : t \in {<<"a">>, <<"A">>}}

GetTrackDetailsEnhanced(track, page) ==
    IF page.ok THEN [track EXCEPT !.title = page.title, !.download_url = page.download_url]
    ELSE track

\* the tracks the loop hands to download_track_with_database
Enhanced ==
    {GetTrackDetailsEnhanced(track, page) : track \in Discovered, page \in {q \in Pages : q.ok}}

\* the candidates of direct calls of download_track_with_database: the
\* enhanced tracks of the first page, and a track without a download link
Candidates ==
    {track \in Enhanced : track.url = "u1"} \cup {Track(<<"a">>, "u2", None)}

PipePaths == {FilePath(track) : track \in Enhanced}

\* the outcomes of the HEAD and GET requests of one download
NetOutcomes == {"ok", "invalid", "error", "empty"}

\* db.add_track(track) inside the pipeline: the store and the id
PipeAdd(d, track, t) ==
    [d EXCEPT !.tracks = SetItem(@, GenerateTrackId(d, track), TrackData(track, t))]

\* a download that leaves the file it wrote when the request fails or the
\* file turns out empty
DownloadResultLeavesFile(d, fs, dr, track, net, t) ==
    LET path == FilePath(track)
        kept == [track EXCEPT !.file_path = Some(path), !.file_size = Some(1)]
        dry == [track EXCEPT !.file_path = Some(path)]
        same == [val |-> FALSE, data |-> d, files |-> fs, added |-> FALSE]
    IN IF TrackExistsResult(d, track) # None THEN [same EXCEPT !.val = TRUE]
       ELSE IF track.download_url = None THEN same
       ELSE IF path \in fs /\ ~dr
            THEN [val |-> TRUE, data |-> PipeAdd(d, kept, t), files |-> fs, added |-> TRUE]
       ELSE IF dr
            THEN [val |-> TRUE, data |-> PipeAdd(d, dry, t), files |-> fs, added |-> TRUE]
       ELSE IF net = "invalid" THEN same
       ELSE IF net # "ok" THEN [same EXCEPT !.files = fs \cup {path}]
       ELSE [val |-> TRUE, data |-> PipeAdd(d, kept, t), files |-> fs \cup {path},
             added |-> TRUE]

\* a download that keeps the record it could not get the file for
DownloadResultAddsOnFailure(d, fs, dr, track, net, t) ==
    LET path == FilePath(track)
        kept == [track EXCEPT !.file_path = Some(path), !.file_size = Some(1)]
        dry == [track EXCEPT !.file_path = Some(path)]
        same == [val |-> FALSE, data |-> d, files |-> fs, added |-> FALSE]
    IN IF TrackExistsResult(d, track) # None THEN [same EXCEPT !.val = TRUE]
       ELSE IF track.download_url = None THEN same
       ELSE IF path \in fs /\ ~dr
            THEN [val |-> TRUE, data |-> PipeAdd(d, kept, t), files |-> fs, added |-> TRUE]
       ELSE IF dr
            THEN [val |-> TRUE, data |-> PipeAdd(d, dry, t), files |-> fs, added |-> TRUE]
       ELSE IF net # "ok"
            THEN [val |-> FALSE, data |-> PipeAdd(d, dry, t), files |-> fs, added |-> TRUE]
       ELSE [val |-> TRUE, data |-> PipeAdd(d, kept, t), files |-> fs \cup {path},
             added |-> TRUE]

\* download_track_with_database on store d, directory fs: the value it
\* returns, the store and directory it leaves, whether it saved
DownloadResult(d, fs, dr, track, net, t) ==
    LET path == FilePath(track)
        kept == [track EXCEPT !.file_path = Some(path), !.file_size = Some(1)]
        dry == [track EXCEPT !.file_path = Some(path)]
        same == [val |-> FALSE, data |-> d, files |-> fs, added |-> FALSE]
    IN IF TrackExistsResult(d, track) # None THEN [same EXCEPT !.val = TRUE]
       ELSE IF track.download_url = None THEN same
       ELSE IF path \in fs /\ ~dr
            THEN [val |-> TRUE, data |-> PipeAdd(d, kept, t), files |-> fs, added |-> TRUE]
       ELSE IF dr
            THEN [val |-> TRUE, data |-> PipeAdd(d, dry, t), files |-> fs, added |-> TRUE]
       ELSE IF net # "ok" THEN same        \* the file, if written, is unlinked
       ELSE [val |-> TRUE, data |-> PipeAdd(d, kept, t), files |-> fs \cup {path},
             added |-> TRUE]

\* the call gets as far as validate_download_url and session.get
ReachesNetwork(d, fs, dr, track) ==
    /\ TrackExistsResult(d, track) = None
    /\ track.download_url # None
    /\ ~dr
    /\ FilePath(track) \notin fs

\* db.save_database() inside the pipeline, start to end: the rename, the
\* open and the dump, or the open raising after the rename
PipeSave(d, save_ok) ==
    /\ backup' = IF file.kind # "absent" THEN file ELSE backup
    /\ file' = IF save_ok THEN JsonDump(d)
               ELSE IF file.kind # "absent" THEN Absent ELSE file

\* the effect of one call of download_track_with_database; net is the
\* outcome of its requests when it makes them, save_ok whether the save it
\* makes after add_track gets through
Download(op, arg, track) ==
    \E net \in (IF ReachesNetwork(data, files, dry_run, track) THEN NetOutcomes ELSE {"ok"}) :
      LET r == DownloadResult(data, files, dry_run, track, net, now) IN
        /\ r.added => now < MaxDownloads
        /\ data' = r.data
        /\ files' = r.files
        /\ now' = IF r.added THEN now + 1 ELSE now
        /\ issued' = issued \cup (KeySet(r.data) \ KeySet(data))
        /\ \E save_ok \in (IF r.added THEN BOOLEAN ELSE {TRUE}) :
              /\ IF r.added THEN PipeSave(r.data, save_ok)
                 ELSE UNCHANGED <<file, backup>>
              /\ ret' = Ret(op, arg, Some(IF r.val THEN "True" ELSE "False"), "none",
                            IF ~r.added THEN "none" ELSE IF save_ok THEN "ok" ELSE "failed")
        /\ UNCHANGED <<mdata, pc, prev, removed, dry_run, other>>

DownloadTrackWithDatabase(track) ==
    /\ pc = "idle"
    /\ WellFormed(data)
    /\ Download("download_track", track, track)

\* one iteration of the loop of download_all_enhanced; page is what
\* get_track_details_enhanced finds when the loop gets to it
ProcessTrack(track) ==
    /\ pc = "idle"
    /\ WellFormed(data)
    /\ IF TrackExistsResult(data, track) # None
       THEN /\ ret' = Ret("process_track", track, Some("already_in_db"), "none", "none")
            /\ UNCHANGED <<data, mdata, file, backup, files, now, pc, prev, issued,
                           removed, dry_run, other>>
       ELSE \E page \in Pages :
              IF GetTrackDetailsEnhanced(track, page).download_url = None
              THEN /\ ret' = Ret("process_track", track, Some("invalid_urls"), "none", "none")
                   /\ UNCHANGED <<data, mdata, file, backup, files, now, pc, prev, issued,
                                  removed, dry_run, other>>
              ELSE Download("process_track", track, GetTrackDetailsEnhanced(track, page))

\* the save that ends download_all_enhanced (and the one main() makes when
\* the run is interrupted)
FinalSave(save_ok) ==
    /\ pc = "idle"
    /\ PipeSave(data, save_ok)
    /\ ret' = Ret("save_database", None, None, "none", IF save_ok THEN "ok" ELSE "failed")
    /\ UNCHANGED <<data, mdata, files, now, pc, prev, issued, removed, dry_run, other>>

\* a new run: EnhancedNCSDownloader(download_dir, dry_run=dr) opens the store
NewDownloader(dr) ==
    /\ pc = "idle"
    /\ data' = LoadTrackDatabase(file)
    /\ dry_run' = dr
    /\ ret' = Ret("load_database", None, None, "none", "none")
    /\ UNCHANGED <<mdata, file, backup, files, now, pc, prev, issued, removed, other>>

InitPipe ==
    /\ data = EmptyData
    /\ mdata = EmptyData
    /\ file = Absent
    /\ backup = Absent
    /\ files = {}
    /\ now = 0
    /\ pc = "idle"
    /\ prev = Absent
    /\ issued = {}
    /\ removed = {}
    /\ dry_run \in BOOLEAN
    /\ other = EmptyData
    /\ ret = Ret("init", None, None, "none", "none")

(***************************************************************************)
(* The queries of DatabaseManager: search_tracks and get_tracks_by_year.   *)
(***************************************************************************)
\* needle in s, for strings
IsSubstring(needle, s) ==
    \E i \in 0..(Len(s) - Len(needle)) : SubSeq(s, i + 1, i + Len(needle)) = needle

\* s.startswith(prefix)
StartsWith(s, prefix) == Len(prefix) <= Len(s) /\ SubSeq(s, 1, Len(prefix)) = prefix

\* a candidate with the metadata the page extraction fills in
QueryTrack(title, artists, genres, url, publish_date, file_size) ==
    [title |-> title, artists |-> artists, genres |-> genres,
     url |-> url, download_url |-> None, publish_date |-> publish_date,
     credit_info |-> None, file_size |-> file_size, file_path |-> None]

\* two tracks with a date and a size, and one added without either
QueryTracks ==
    LET Date2020 == <<"2", "0", "2", "0", "-", "0", "1", "-", "0", "2">>
        Date2021 == <<"2", "0", "2", "1", "-", "1", "1", "-", "3", "0">>
    IN {QueryTrack(<<"a", "b">>, <<<<"A">>>>, <<<<"b">>, <<"a", "b">>>>, "u1",
                   Some(Date2020), Some(3)),
        QueryTrack(<<"A">>, <<<<"a">>, <<"A">>>>, <<<<"b">>>>, "u2", Some(Date2021), Some(5)),
        QueryTrack(<<"a">>, <<<<"A">>>>, <<>>, "u3", None, None)}

Queries == {<<>>, <<"a">>, <<"B">>, <<"a", "b">>, <<"b", "a">>}
Fields == {"title", "artist", "genre", "all"}
Years == {<<"2", "0", "2", "0">>, <<"2", "0", "2", "1">>, <<"1", "9", "9", "9">>}

\* any(query_lower in x.lower() for x in xs)
AnyContains(xs, query_lower) ==
    \E i \in 1..Len(xs) : IsSubstring(query_lower, Lower(xs[i]))

\* a search that requires every selected field to match
SearchMatchAll(rec, query_lower, field) ==
    /\ field \in {"all", "title"} => IsSubstring(query_lower, Lower(rec.title))
    /\ field \in {"all", "artist"} => AnyContains(rec.artists, query_lower)
    /\ field \in {"all", "genre"} => AnyContains(rec.genres, query_lower)

\* the value of match after the three ifs of the loop body
SearchMatch(rec, query_lower, field) ==
    \/ field \in {"all", "title"} /\ IsSubstring(query_lower, Lower(rec.title))
    \/ field \in {"all", "artist"} /\ AnyContains(rec.artists, query_lower)
    \/ field \in {"all", "genre"} /\ AnyContains(rec.genres, query_lower)

\* result = track_data.copy(); result["track_id"] = track_id
WithTrackId(rec, track_id) ==
    [f \in DOMAIN rec \cup {"track_id"} |-> IF f = "track_id" THEN track_id ELSE rec[f]]

\* the list search_tracks returns on the tracks dict m
SearchResults(m, query, field) ==
    LET hits == SelectSeq(m.keys, LAMBDA k : SearchMatch(m.recs[k], Lower(query), field))
    IN [i \in 1..Len(hits) |-> WithTrackId(m.recs[hits[i]], hits[i])]

\* a search that adds track_id to the stored record instead of to a copy
SearchTracksNoCopy(query, field) ==
    /\ pc = "idle"
    /\ TracksAccess(mdata) = "none"
    /\ ret' = Ret("search_tracks", [query |-> query, field |-> field],
                  Some(SearchResults(mdata.tracks, query, field)), "none", "none")
    /\ mdata' = [mdata EXCEPT !.tracks.recs =
                    [k \in DOMAIN @ |->
                        IF SearchMatch(@[k], Lower(query), field) THEN WithTrackId(@[k], k)
                        ELSE @[k]]]
    /\ UNCHANGED <<data, file, backup, files, now, pc, prev, issued, removed, dry_run, other>>

SearchTracks(query, field) ==
    /\ pc = "idle"
    /\ TracksAccess(mdata) = "none"
    /\ ret' = Ret("search_tracks", [query |-> query, field |-> field],
                  Some(SearchResults(mdata.tracks, query, field)), "none", "none")
    /\ UNCHANGED <<data, mdata, file, backup, files, now, pc, prev, issued, removed,
                   dry_run, other>>

\* publish_date.startswith(year) on a publish_date that is None
YearRaises(m) == \E i \in 1..Len(m.keys) : m.recs[m.keys[i]].publish_date = None

YearResults(m, year) ==
    LET hits == SelectSeq(m.keys, LAMBDA k : StartsWith(m.recs[k].publish_date[1], year))
    IN [i \in 1..Len(hits) |-> WithTrackId(m.recs[hits[i]], hits[i])]

GetTracksByYear(year) ==
    /\ pc = "idle"
    /\ TracksAccess(mdata) = "none"
    /\ ret' = IF YearRaises(mdata.tracks)
              THEN Ret("get_tracks_by_year", year, None, "AttributeError", "none")
              ELSE Ret("get_tracks_by_year", year, Some(YearResults(mdata.tracks, year)),
                       "none", "none")
    /\ UNCHANGED <<data, mdata, file, backup, files, now, pc, prev, issued, removed,
                   dry_run, other>>

(***************************************************************************)
(* The aggregates: TrackDatabase.get_stats, DatabaseManager.               *)
(* get_detailed_stats and generate_report.  A dict of counts is the        *)
(* sequence of its items <<name, count>> in the order the dict yields them.*)
(***************************************************************************)
\* the values of the list-valued field of every record, in iteration order
RECURSIVE Flatten(_, _, _)
Flatten(m, field, i) ==
    IF i > Len(m.keys) THEN <<>>
    ELSE m.recs[m.keys[i]][field] \o Flatten(m, field, i + 1)

\* the names of xs in first-appearance order
RECURSIVE FirstSeen(_, _)
FirstSeen(xs, seen) ==
    IF xs = <<>> THEN <<>>
    ELSE IF xs[1] \in seen THEN FirstSeen(Tail(xs), seen)
    ELSE <<xs[1]>> \o FirstSeen(Tail(xs), seen \cup {xs[1]})

\* counts[x] = counts.get(x, 0) + 1 for every x of xs
Counts(xs) ==
    LET names == FirstSeen(xs, {})
    IN [i \in 1..Len(names) |->
          <<names[i], Cardinality({j \in 1..Len(xs) : xs[j] = names[i]})>>]

\* a table that is left in the order the dict was filled
Unsorted(items) == items

\* the place of one more item in a list sorted by count, largest first: after
\* every item whose count is not smaller (the sort is stable)
RECURSIVE InsertDesc(_, _)
InsertDesc(sorted, item) ==
    IF sorted = <<>> THEN <<item>>
    ELSE IF sorted[1][2] >= item[2] THEN <<sorted[1]>> \o InsertDesc(Tail(sorted), item)
    ELSE <<item>> \o sorted

\* sorted(counts.items(), key=lambda x: x[1], reverse=True), from item i on
RECURSIVE SortDescFrom(_, _, _)
SortDescFrom(items, i, sorted) ==
    IF i > Len(items) THEN sorted
    ELSE SortDescFrom(items, i + 1, InsertDesc(sorted, items[i]))

SortDesc(items) == SortDescFrom(items, 1, <<>>)

\* sum(...) over the file sizes, from record i on; acc is the running total
RECURSIVE SumSizes(_, _, _)
SumSizes(m, i, acc) ==
    IF i > Len(m.keys) THEN acc
    ELSE SumSizes(m, i + 1, acc + m.recs[m.keys[i]].file_size[1])

\* int + None: some record holds "file_size": None
SumRaises(m) == \E i \in 1..Len(m.keys) : m.recs[m.keys[i]].file_size = None

MB == 1024 * 1024
GB == 1024 * 1024 * 1024

\* round(num / den, digits), as the count of units of 10^-digits (scale is
\* 10^digits), ties to the even neighbour
Round(num, den, scale) ==
    LET q == (num * scale) \div den
        r == (num * scale) % den
    IN IF 2 * r > den THEN q + 1
       ELSE IF 2 * r = den THEN q + (q % 2)
       ELSE q

\* max(xs) of a non-empty set of clock values
Max(xs) == CHOOSE x \in xs : \A y \in xs : y <= x

\* the isoformat text of a clock value; '' is <<>>
Iso(t) == <<t>>

\* max([t.get("download_timestamp", "") for t in tracks.values()] or [""])
MostRecent(m) ==
    IF m.keys = <<>> THEN <<>>
    ELSE Iso(Max({m.recs[k].download_timestamp : k \in DOMAIN m.recs}))

\* get_stats on the tracks dict m, when nothing raises
Stats(m) ==
    [total_tracks |-> Len(m.keys),
     total_file_size |-> SumSizes(m, 1, 0),
     total_file_size_mb |-> Round(SumSizes(m, 1, 0), MB, 100),
     genres |-> SortDesc(Counts(Flatten(m, "genres", 1))),
     artists |-> SortDesc(Counts(Flatten(m, "artists", 1))),
     most_recent_download |-> MostRecent(m)]

GetStats ==
    /\ pc = "idle"
    /\ TracksAccess(data) = "none"
    /\ ret' = IF SumRaises(data.tracks)
              THEN Ret("get_stats", None, None, "TypeError", "none")
              ELSE Ret("get_stats", None, Some(Stats(data.tracks)), "none", "none")
    /\ UNCHANGED <<data, mdata, file, backup, files, now, pc, prev, issued, removed,
                   dry_run, other>>

\* publish_date[:4] of every record that has a publish_date, in iteration order
RECURSIVE YearsOf(_, _)
YearsOf(m, i) ==
    IF i > Len(m.keys) THEN <<>>
    ELSE IF m.recs[m.keys[i]].publish_date \in {None, Some(<<>>)} THEN YearsOf(m, i + 1)
    ELSE LET d == m.recs[m.keys[i]].publish_date[1]
         IN <<SubSeq(d, 1, IF Len(d) < 4 THEN Len(d) ELSE 4)>> \o YearsOf(m, i + 1)

\* the clock is read this many times a day
ReadingsPerDay == 2

\* datetime.fromisoformat(download_timestamp).strftime('%Y-%m-%d')
DayOf(t) == t \div ReadingsPerDay

\* download_dates, in iteration order
DownloadDates(m) == [i \in 1..Len(m.keys) |-> DayOf(m.recs[m.keys[i]].download_timestamp)]

\* sorted(items) of a dict whose keys are dates: ascending by date
RECURSIVE SortByDate(_)
SortByDate(items) ==
    IF items = <<>> THEN <<>>
    ELSE LET i == CHOOSE i \in 1..Len(items) : \A j \in 1..Len(items) : items[i][1] <= items[j][1]
         IN <<items[i]>> \o SortByDate(SelectSeq(items, LAMBDA it : it # items[i]))

NoTracks == [error |-> "No tracks in database"]

\* get_detailed_stats on a non-empty tracks dict m, when nothing raises
DetailedStats(m) ==
    LET total_size == SumSizes(m, 1, 0)
        genre_counts == Counts(Flatten(m, "genres", 1))
        artist_counts == Counts(Flatten(m, "artists", 1))
        year_counts == Counts(YearsOf(m, 1))
    IN [total_tracks |-> Len(m.keys),
        total_file_size_bytes |-> total_size,
        total_file_size_mb |-> Round(total_size, MB, 100),
        total_file_size_gb |-> Round(total_size, GB, 1000),
        average_file_size_mb |-> Round(total_size, Len(m.keys) * MB, 100),
        genres |-> [total_unique |-> Len(genre_counts), counts |-> SortDesc(genre_counts)],
        artists |-> [total_unique |-> Len(artist_counts), counts |-> SortDesc(artist_counts)],
        years |-> [total_unique |-> Len(year_counts), counts |-> SortDesc(year_counts)],
        download_timeline |-> SortByDate(Counts(DownloadDates(m)))]

\* an aggregate without the "if not tracks" return: on an empty dict the
\* average divides by len(file_sizes)
DetailedStatsUnguarded(m) ==
    IF m.keys = <<>> THEN [raised |-> "ZeroDivisionError", val |-> None]
    ELSE IF SumRaises(m) THEN [raised |-> "TypeError", val |-> None]
    ELSE [raised |-> "none", val |-> Some(DetailedStats(m))]

\* the outcome of get_detailed_stats on the tracks dict m
DetailedStatsResult(m) ==
    IF m.keys = <<>> THEN [raised |-> "none", val |-> Some(NoTracks)]
    ELSE IF SumRaises(m) THEN [raised |-> "TypeError", val |-> None]
    ELSE [raised |-> "none", val |-> Some(DetailedStats(m))]

GetDetailedStats ==
    /\ pc = "idle"
    /\ TracksAccess(mdata) = "none"
    /\ ret' = Ret("get_detailed_stats", None, DetailedStatsResult(mdata.tracks).val,
                  DetailedStatsResult(mdata.tracks).raised, "none")
    /\ UNCHANGED <<data, mdata, file, backup, files, now, pc, prev, issued, removed,
                   dry_run, other>>

\* the first n items of a list
Take(items, n) == SubSeq(items, 1, IF Len(items) < n THEN Len(items) ELSE n)

\* the last n items of a list
Last(items, n) == SubSeq(items, IF Len(items) < n THEN 1 ELSE Len(items) - n + 1, Len(items))

\* what the lines of the report after the first are built from
ReportContent(stats) ==
    [total_tracks |-> stats.total_tracks,
     total_file_size_gb |-> stats.total_file_size_gb,
     total_file_size_mb |-> stats.total_file_size_mb,
     average_file_size_mb |-> stats.average_file_size_mb,
     unique_genres |-> stats.genres.total_unique,
     genres |-> Take(stats.genres.counts, 10),
     unique_artists |-> stats.artists.total_unique,
     artists |-> Take(stats.artists.counts, 10),
     years |-> stats.years.counts,
     recent_downloads |-> Last(stats.download_timeline, 10)]

\* generate_report() without an output file
GenerateReport ==
    /\ pc = "idle"
    /\ TracksAccess(mdata) = "none"
    /\ LET stats == DetailedStatsResult(mdata.tracks) IN
         ret' = IF stats.raised # "none"
                THEN Ret("generate_report", None, None, stats.raised, "none")
                ELSE IF "error" \in DOMAIN stats.val[1]
                THEN Ret("generate_report", None,
                         Some([first_line |-> stats.val[1].error]), "none", "none")
                ELSE Ret("generate_report", None,
                         Some([first_line |-> "NCS Music Database Report",
                               rest |-> ReportContent(stats.val[1])]), "none", "none")
    /\ UNCHANGED <<data, mdata, file, backup, files, now, pc, prev, issued, removed,
                   dry_run, other>>

(***************************************************************************)
(* SpecQuery: a TrackDatabase filled by add_track and saved, a             *)
(* DatabaseManager opened on the file, and the queries and aggregates of   *)
(* both.                                                                   *)
(***************************************************************************)
\* the number of records of the store that is queried
MaxRecords == 2

\* add_track of one of the tracks with metadata
AddQueryTrack(track) ==
    /\ Len(data.tracks.keys) < MaxRecords
    /\ AddTrack(track)

NextQuery ==
    \/ \E track \in QueryTracks : AddQueryTrack(track)
    \/ SaveRename \/ SaveOpen \/ SaveWrite
    \/ OpenManager
    \/ \E query \in Queries, field \in Fields : SearchTracks(query, field)
    \/ \E year \in Years : GetTracksByYear(year)
    \/ \E track \in QueryTracks : TrackExists(track)
    \/ GetStats
    \/ GetDetailedStats
    \/ GenerateReport

SpecQuery == Init /\ [][NextQuery]_vars

(***************************************************************************)
(* EnhancedNCSDownloader.download_all_enhanced                             *)
(***************************************************************************)
\* one call of download_all_enhanced(limit) on a downloader that has just
\* been constructed, start to end.  The loop is followed through every
\* outcome its calls can have: the page get_track_details_enhanced finds,
\* setup_driver raising, the requests of the download; save_ok says whether
\* the database file can be written during the run.
DownloadAllEnhanced ==
    /\ pc = "idle"
    /\ ret.op \in {"init", "load_database"}
    /\ WellFormed(data)
    /\ \E limit \in {0, 2}, save_ok \in BOOLEAN :
         LET discovered ==
                 <<Track(<<"a">>, "u1", None), Track(<<"A">>, "u1", None),
                   Track(<<"a">>, "u2", None)>>
             \* if limit: tracks = tracks[:limit]
             tracks == IF limit = 0 THEN discovered ELSE Take(discovered, limit)
             \* stats[bucket] += 1
             Count(s, bucket) == [s EXCEPT !.stats[bucket] = @ + 1]
             \* db.save_database() on the store d
             Saved(s, d) ==
                 [s EXCEPT !.data = d,
                           !.backup = IF s.file.kind # "absent" THEN s.file ELSE s.backup,
                           !.file = IF save_ok THEN JsonDump(d)
                                    ELSE IF s.file.kind # "absent" THEN Absent ELSE s.file]
             \* download_track_with_database(track) and the count of its result
             Downloads(s, track) ==
                 UNION {LET r == DownloadResult(s.data, s.files, dry_run, track, net, s.now)
                        IN IF r.added /\ s.now >= MaxDownloads THEN {}
                           ELSE {Count([(IF r.added THEN Saved(s, r.data) ELSE s)
                                          EXCEPT !.data = r.data, !.files = r.files,
                                                 !.now = IF r.added THEN @ + 1 ELSE @],
                                       IF r.val THEN "success" ELSE "failed")} :
                        net \in (IF ReachesNetwork(s.data, s.files, dry_run, track)
                                 THEN NetOutcomes ELSE {"ok"})}
             \* the body of the loop for one track
             Step(s, track) ==
                 IF TrackExistsResult(s.data, track) # None
                 THEN {Count(s, "already_in_db")}
                 ELSE {Count(s, "failed")}                 \* setup_driver raises
                      \cup UNION {LET enhanced == GetTrackDetailsEnhanced(track, page)
                                      open == [s EXCEPT !.driver = TRUE]
                                  IN IF enhanced.download_url = None
                                     THEN {Count(open, "invalid_urls")}
                                     ELSE Downloads(open, enhanced) :
                                  page \in Pages}
             RECURSIVE Loop(_, _)
             Loop(ss, i) ==
                 IF i > Len(tracks) THEN ss
                 ELSE Loop(UNION {Step(s, tracks[i]) : s \in ss}, i + 1)
             start ==
                 [data |-> data, files |-> files, now |-> now, file |-> file,
                  backup |-> backup, driver |-> FALSE,
                  stats |-> [total |-> Len(tracks), success |-> 0, failed |-> 0,
                             skipped |-> 0, already_in_db |-> 0, invalid_urls |-> 0]]
         IN \E s \in Loop({start}, 1) :
               LET end == Saved(s, s.data) IN
                 /\ data' = end.data
                 /\ files' = end.files
                 /\ now' = end.now
                 /\ file' = end.file
                 /\ backup' = end.backup
                 /\ issued' = issued \cup (KeySet(end.data) \ KeySet(data))
                 \* get_stats raising is caught by the outer except; cleanup()
                 \* runs in the finally clause and leaves self.driver None
                 /\ ret' = Ret("download_all_enhanced", limit,
                               Some([stats |-> s.stats,
                                     database_stats |-> ~SumRaises(end.data.tracks),
                                     driver_opened |-> s.driver,
                                     driver |-> None]),
                               "none", IF save_ok THEN "ok" ELSE "failed")
    /\ UNCHANGED <<mdata, pc, prev, removed, dry_run, other>>

(***************************************************************************)
(* SpecPipe: runs of the download pipeline on one download directory.      *)
(***************************************************************************)
NextPipe ==
    \/ \E track \in Candidates : DownloadTrackWithDatabase(track)
    \/ \E track \in Discovered : ProcessTrack(track)
    \/ \E save_ok \in BOOLEAN : FinalSave(save_ok)
    \/ \E dr \in BOOLEAN : NewDownloader(dr)
    \/ DownloadAllEnhanced

SpecPipe == InitPipe /\ [][NextPipe]_vars

(***************************************************************************)
(* EnhancedNCSDownloader.parse_artists                                     *)
(***************************************************************************)
\* the characters str.strip() and \s take for whitespace
Whitespace == {" ", "\t"}

RECURSIVE LStripWs(_)
LStripWs(s) == IF s # <<>> /\ s[1] \in Whitespace THEN LStripWs(Tail(s)) ELSE s

RECURSIVE RStripWs(_)
RStripWs(s) ==
    IF s # <<>> /\ s[Len(s)] \in Whitespace THEN RStripWs(SubSeq(s, 1, Len(s) - 1)) ELSE s

\* str.strip()
StripWs(s) == RStripWs(LStripWs(s))

\* s[n:]
Drop(s, n) == SubSeq(s, n + 1, Len(s))

\* re.sub(r'^(by|artist:?)\s*', '', text, flags=re.IGNORECASE)
CleanPrefix(text) ==
    IF StartsWith(Lower(text), <<"b", "y">>) THEN LStripWs(Drop(text, 2))
    ELSE IF StartsWith(Lower(text), <<"a", "r", "t", "i", "s", "t", ":">>)
         THEN LStripWs(Drop(text, 7))
    ELSE IF StartsWith(Lower(text), <<"a", "r", "t", "i", "s", "t">>)
         THEN LStripWs(Drop(text, 6))
    ELSE text

\* separators, in the order they are applied: ' feat. ', ' ft. ', ' & ',
\* ' and ', ',', ' x ', ' X '
Separators ==
    <<<<" ", "f", "e", "a", "t", ".", " ">>, <<" ", "f", "t", ".", " ">>,
      <<" ", "&", " ">>, <<" ", "a", "n", "d", " ">>, <<",">>,
      <<" ", "x", " ">>, <<" ", "X", " ">>>>

\* the start of the leftmost occurrence of sep in s (sep occurs in s)
Find(s, sep) ==
    CHOOSE i \in 0..(Len(s) - Len(sep)) :
       /\ SubSeq(s, i + 1, i + Len(sep)) = sep
       /\ \A j \in 0..(i - 1) : SubSeq(s, j + 1, j + Len(sep)) # sep

\* s.split(sep)
RECURSIVE Split(_, _)
Split(s, sep) ==
    IF ~IsSubstring(sep, s) THEN <<s>>
    ELSE <<SubSeq(s, 1, Find(s, sep))>> \o Split(Drop(s, Find(s, sep) + Len(sep)), sep)

\* [a.strip() for a in artist.split(sep)] for every artist of artists
RECURSIVE SplitEach(_, _)
SplitEach(artists, sep) ==
    IF artists = <<>> THEN <<>>
    ELSE [i \in 1..Len(Split(artists[1], sep)) |-> StripWs(Split(artists[1], sep)[i])]
           \o SplitEach(Tail(artists), sep)

\* the loop over separators, from separator i on
RECURSIVE SplitBySeparators(_, _)
SplitBySeparators(artists, i) ==
    IF i > Len(Separators) THEN artists
    ELSE SplitBySeparators(SplitEach(artists, Separators[i]), i + 1)

StopWords == {<<"t", "h", "e">>, <<"a">>, <<"a", "n">>}

\* a filter that drops only the empty fragments
KeepNonEmpty(artist) == artist # <<>>

\* artist and len(artist) > 1 and not artist.lower() in ['the', 'a', 'an']
KeepArtist(artist) == artist # <<>> /\ Len(artist) > 1 /\ Lower(artist) \notin StopWords

\* the list parse_artists(text) returns
ParseArtistsResult(text) ==
    IF text = <<>> THEN <<>>
    ELSE LET artists == SplitBySeparators(<<CleanPrefix(text)>>, 1)
             stripped == [i \in 1..Len(artists) |-> StripWs(artists[i])]
         IN Take(SelectSeq(stripped, KeepArtist), 5)

\* the number of pieces an input text is put together from
MaxPieces == 3

\* the texts parse_artists is called with, each as the list of its pieces.
\* The pieces are names, the separators, a blank and the prefixes the
\* extraction leaves in front of a name; the longer texts are the ones of
\* the tests and eight names joined by every separator.
Texts ==
    LET Al == <<"A", "l">>
        Bo == <<"B", "o">>
        Artist1 == <<"A", "r", "t", "i", "s", "t", "1">>
        AlanWalker == <<"A", "l", "a", "n", " ", "W", "a", "l", "k", "e", "r">>
        NoahCyrus == <<"N", "o", "a", "h", " ", "C", "y", "r", "u", "s">>
        Sep == Separators
        Pieces == {Al, Bo, <<"A">>, <<"T", "h", "e">>, <<"B", "y", "r", "o", "n">>, Artist1,
                   <<" ">>, <<"b", "y", " ">>, <<"A", "r", "t", "i", "s", "t", ":", " ">>}
                    \cup {Sep[i] : i \in 1..Len(Sep)}
    IN (UNION {[1..n -> Pieces] : n \in 0..MaxPieces}) \cup
       {<<AlanWalker, Sep[1], NoahCyrus>>,
        <<<<"A">>, Sep[3], <<"B">>, Sep[3], <<"C">>>>,
        <<Artist1, Sep[3], Artist1, Sep[3], Artist1>>,
        <<Al, Sep[1], Bo, Sep[2], Al, Sep[3], Bo, Sep[4], Al, Sep[5], Bo, Sep[6], Al,
          Sep[7], Bo>>}

\* the text itself
RECURSIVE Concat(_)
Concat(pieces) == IF pieces = <<>> THEN <<>> ELSE pieces[1] \o Concat(Tail(pieces))

ParseArtists ==
    /\ ret.op = "text"
    /\ ret' = Ret("parse_artists", ret.arg, Some(ParseArtistsResult(Concat(ret.arg))),
                  "none", "none")
    /\ UNCHANGED <<data, mdata, file, backup, files, now, pc, prev, issued, removed,
                   dry_run, other>>

(***************************************************************************)
(* EnhancedNCSDownloader.parse_genres                                      *)
(***************************************************************************)
\* known_genres, in the order of the list
KnownGenres ==
    <<<<"H", "o", "u", "s", "e">>,
      <<"P", "r", "o", "g", "r", "e", "s", "s", "i", "v", "e", " ", "H", "o", "u", "s", "e">>,
      <<"D", "e", "e", "p", " ", "H", "o", "u", "s", "e">>,
      <<"T", "e", "c", "h", " ", "H", "o", "u", "s", "e">>,
      <<"D", "u", "b", "s", "t", "e", "p">>,
      <<"D", "r", "u", "m", " ", "&", " ", "B", "a", "s", "s">>, <<"D", "n", "B">>,
      <<"T", "r", "a", "p">>, <<"F", "u", "t", "u", "r", "e", " ", "B", "a", "s", "s">>,
      <<"E", "l", "e", "c", "t", "r", "o">>,
      <<"E", "l", "e", "c", "t", "r", "o", "n", "i", "c">>, <<"E", "D", "M">>,
      <<"A", "m", "b", "i", "e", "n", "t">>, <<"C", "h", "i", "l", "l">>,
      <<"S", "y", "n", "t", "h", "w", "a", "v", "e">>,
      <<"M", "e", "l", "o", "d", "i", "c", " ", "D", "u", "b", "s", "t", "e", "p">>,
      <<"H", "a", "r", "d", "s", "t", "y", "l", "e">>, <<"T", "r", "a", "n", "c", "e">>>>

\* the list parse_genres(text) returns
ParseGenresResult(text) ==
    IF text = <<>> THEN <<>>
    ELSE LET text_lower == Lower(text)
             Named(genre) == IsSubstring(Lower(genre), text_lower)
             \* re.split(r'[,;&|]', s)
             RECURSIVE ReSplit(_, _)
             ReSplit(s, tag) ==
                 IF s = <<>> THEN <<tag>>
                 ELSE IF s[1] \in {",", ";", "&", "|"} THEN <<tag>> \o ReSplit(Tail(s), <<>>)
                 ELSE ReSplit(Tail(s), Append(tag, s[1]))
             IsLetter(c) == \E i \in 1..26 : c = Upper[i] \/ c = LowerLetters[i]
             UpperChar(c) ==
                 IF \E i \in 1..26 : LowerLetters[i] = c
                 THEN Upper[CHOOSE i \in 1..26 : LowerLetters[i] = c]
                 ELSE c
             \* str.title()
             Title(s) ==
                 [i \in 1..Len(s) |->
                     IF i = 1 \/ ~IsLetter(s[i - 1]) THEN UpperChar(s[i]) ELSE LowerChar(s[i])]
             tags == ReSplit(text, <<>>)
             titled == [i \in 1..Len(tags) |-> Title(StripWs(tags[i]))]
             LongTag(tag) == tag # <<>> /\ Len(tag) > 2
             found_genres == SelectSeq(KnownGenres, Named)
         IN Take(IF found_genres # <<>> THEN found_genres ELSE SelectSeq(titled, LongTag), 3)

\* parse_genres applied to a text
ParseGenres ==
    /\ ret.op = "genre_text"
    /\ ret' = Ret("parse_genres", ret.arg, Some(ParseGenresResult(Concat(ret.arg))),
                  "none", "none")
    /\ UNCHANGED <<data, mdata, file, backup, files, now, pc, prev, issued, removed,
                   dry_run, other>>

(***************************************************************************)
(* EnhancedNCSDownloader.parse_date                                        *)
(***************************************************************************)
\* what parse_date(date_str) returns. strftime('%Y') pads the year to four
\* digits on some C libraries and prints it unpadded on others: padded says
\* which one the interpreter runs on.
ParseDateResult(date_str, padded) ==
    IF date_str = <<>> THEN None
    ELSE LET \* date_str.split('T')[0]; every format is cut at its 'T' as well
             head == Split(date_str, <<"T">>)[1]
             IsDigit(c) == \E i \in 1..10 : c = DigitChars[i]
             Digits(s) == s # <<>> /\ \A i \in 1..Len(s) : IsDigit(s[i])
             Digit(c) == (CHOOSE i \in 1..10 : c = DigitChars[i]) - 1
             RECURSIVE Num(_)
             Num(s) == IF s = <<>> THEN 0 ELSE 10 * Num(SubSeq(s, 1, Len(s) - 1)) + Digit(s[Len(s)])
             \* the directives %Y, %m, %d and %B as strptime matches them
             IsYear(s) == Len(s) = 4 /\ Digits(s)
             IsMonth(s) == Len(s) \in {1, 2} /\ Digits(s) /\ Num(s) \in 1..12
             IsDay(s) ==
                 \/ Len(s) \in {1, 2} /\ Digits(s) /\ Num(s) \in 1..31
                 \/ Len(s) = 2 /\ s[1] = " " /\ IsDigit(s[2]) /\ s[2] # "0"
             Day(s) == IF s[1] = " " THEN Num(Tail(s)) ELSE Num(s)
             MonthNames ==
                 <<<<"j", "a", "n", "u", "a", "r", "y">>,
                  <<"f", "e", "b", "r", "u", "a", "r", "y">>, <<"m", "a", "r", "c", "h">>,
                  <<"a", "p", "r", "i", "l">>, <<"m", "a", "y">>, <<"j", "u", "n", "e">>,
                  <<"j", "u", "l", "y">>, <<"a", "u", "g", "u", "s", "t">>,
                  <<"s", "e", "p", "t", "e", "m", "b", "e", "r">>,
                  <<"o", "c", "t", "o", "b", "e", "r">>,
                  <<"n", "o", "v", "e", "m", "b", "e", "r">>,
                  <<"d", "e", "c", "e", "m", "b", "e", "r">>>>
             IsMonthName(s) == \E i \in 1..12 : Lower(s) = MonthNames[i]
             MonthOf(s) == CHOOSE i \in 1..12 : Lower(s) = MonthNames[i]
             Leap(y) == y % 4 = 0 /\ (y % 100 # 0 \/ y % 400 = 0)
             DaysIn(y, m) ==
                 IF m = 2 THEN (IF Leap(y) THEN 29 ELSE 28)
                 ELSE IF m \in {4, 6, 9, 11} THEN 30 ELSE 31
             \* datetime(y, m, d) is a date
             IsDate(y, m, d) == y >= 1 /\ d <= DaysIn(y, m)
             Pad2(n) == IF n < 10 THEN <<"0">> \o Str(n) ELSE Str(n)
             Pad4(n) == IF n < 10 THEN <<"0", "0", "0">> \o Str(n)
                        ELSE IF n < 100 THEN <<"0", "0">> \o Str(n)
                        ELSE IF n < 1000 THEN <<"0">> \o Str(n) ELSE Str(n)
             \* parsed.strftime('%Y-%m-%d')
             Strftime(y, m, d) ==
                 (IF padded THEN Pad4(y) ELSE Str(y)) \o <<"-">> \o Pad2(m) \o <<"-">> \o Pad2(d)
             \* the end of the blanks of s that begin at position i
             RECURSIVE SkipWs(_, _)
             SkipWs(s, i) == IF i <= Len(s) /\ s[i] \in Whitespace THEN SkipWs(s, i + 1) ELSE i
             dash == Split(head, <<"-">>)
             slash == Split(head, <<"/">>)
             \* '%Y-%m-%d'
             YmdOk ==
                 /\ Len(dash) = 3 /\ IsYear(dash[1]) /\ IsMonth(dash[2]) /\ IsDay(dash[3])
                 /\ IsDate(Num(dash[1]), Num(dash[2]), Day(dash[3]))
             \* '%d/%m/%Y'
             DmyOk ==
                 /\ Len(slash) = 3 /\ IsDay(slash[1]) /\ IsMonth(slash[2]) /\ IsYear(slash[3])
                 /\ IsDate(Num(slash[3]), Num(slash[2]), Day(slash[1]))
             \* '%m/%d/%Y'
             MdyOk ==
                 /\ Len(slash) = 3 /\ IsMonth(slash[1]) /\ IsDay(slash[2]) /\ IsYear(slash[3])
                 /\ IsDate(Num(slash[3]), Num(slash[1]), Day(slash[2]))
             \* the first position from i on that holds a character of cs
             RECURSIVE Until(_, _, _)
             Until(s, i, cs) == IF i <= Len(s) /\ s[i] \notin cs THEN Until(s, i + 1, cs) ELSE i
             end == Len(head)
             \* '%B %d, %Y': the month ends at m1, the day is d0..(d1 - 1), then a
             \* comma, blanks and the year from y0
             m1 == Until(head, 1, Whitespace)
             d0 == SkipWs(head, m1)
             d1 == Until(head, d0, {","})
             y0 == SkipWs(head, d1 + 1)
             BdYOk ==
                 /\ IsMonthName(SubSeq(head, 1, m1 - 1))
                 /\ d0 > m1 /\ IsDay(SubSeq(head, d0, d1 - 1))
                 /\ d1 <= end /\ y0 > d1 + 1 /\ IsYear(SubSeq(head, y0, end))
                 /\ IsDate(Num(SubSeq(head, y0, end)), MonthOf(SubSeq(head, 1, m1 - 1)),
                           Day(SubSeq(head, d0, d1 - 1)))
             \* '%d %B %Y': the day ends at e1, the month is n0..(n1 - 1), then
             \* blanks and the year from z0
             e1 == Until(head, 2, Whitespace)
             n0 == SkipWs(head, e1)
             n1 == Until(head, n0, Whitespace)
             z0 == SkipWs(head, n1)
             dBYOk ==
                 /\ head # <<>> /\ IsDay(SubSeq(head, 1, e1 - 1))
                 /\ n0 > e1 /\ IsMonthName(SubSeq(head, n0, n1 - 1))
                 /\ z0 > n1 /\ IsYear(SubSeq(head, z0, end))
                 /\ IsDate(Num(SubSeq(head, z0, end)), MonthOf(SubSeq(head, n0, n1 - 1)),
                           Day(SubSeq(head, 1, e1 - 1)))
             \* re.search(r'20\d{2}', date_str)
             YearAt(i) ==
                 /\ i + 3 <= Len(date_str)
                 /\ date_str[i] = "2" /\ date_str[i + 1] = "0"
                 /\ IsDigit(date_str[i + 2]) /\ IsDigit(date_str[i + 3])
         IN IF YmdOk THEN Some(Strftime(Num(dash[1]), Num(dash[2]), Day(dash[3])))
            ELSE IF DmyOk THEN Some(Strftime(Num(slash[3]), Num(slash[2]), Day(slash[1])))
            ELSE IF MdyOk THEN Some(Strftime(Num(slash[3]), Num(slash[1]), Day(slash[2])))
            ELSE IF BdYOk
                 THEN Some(Strftime(Num(SubSeq(head, y0, end)), MonthOf(SubSeq(head, 1, m1 - 1)),
                                    Day(SubSeq(head, d0, d1 - 1))))
            ELSE IF dBYOk
                 THEN Some(Strftime(Num(SubSeq(head, z0, end)),
                                    MonthOf(SubSeq(head, n0, n1 - 1)),
                                    Day(SubSeq(head, 1, e1 - 1))))
            ELSE IF \E i \in 1..Len(date_str) : YearAt(i)
                 THEN LET i == CHOOSE i \in 1..Len(date_str) :
                                  YearAt(i) /\ \A j \in 1..(i - 1) : ~YearAt(j)
                      IN Some(SubSeq(date_str, i, i + 3) \o <<"-", "0", "1", "-", "0", "1">>)
            ELSE None

\* parse_date applied to a text
ParseDate ==
    /\ ret.op = "date_text"
    /\ \E padded \in BOOLEAN :
          ret' = Ret("parse_date", ret.arg, ParseDateResult(Concat(ret.arg), padded),
                     "none", "none")
    /\ UNCHANGED <<data, mdata, file, backup, files, now, pc, prev, issued, removed,
                   dry_run, other>>

(***************************************************************************)
(* EnhancedNCSDownloader.extract_track_metadata: genres                    *)
(***************************************************************************)
\* extract_track_metadata applied to a page, given as the texts of the
\* elements its genre selectors match, in document order; track.genres is
\* list(set(genres_found)), a list in no particular order, kept as a set
ExtractTrackMetadata ==
    /\ ret.op = "page"
    /\ LET RECURSIVE GenresFound(_)
           \* genres_found after the loops over the selectors and their elements
           GenresFound(texts) ==
               IF texts = <<>> THEN <<>>
               ELSE (IF StripWs(texts[1]) # <<>> THEN ParseGenresResult(StripWs(texts[1]))
                     ELSE <<>>) \o GenresFound(Tail(texts))
           genres_found ==
               IF GenresFound(ret.arg) = <<>> THEN <<<<"E", "l", "e", "c", "t", "r", "o", "n", "i", "c">>>>
               ELSE GenresFound(ret.arg)
       IN ret' = Ret("extract_track_metadata", ret.arg, Some([genres |-> Range(genres_found)]),
                     "none", "none")
    /\ UNCHANGED <<data, mdata, file, backup, files, now, pc, prev, issued, removed,
                   dry_run, other>>

InitParse ==
    /\ data = EmptyData
    /\ mdata = EmptyData
    /\ file = Absent
    /\ backup = Absent
    /\ files = {}
    /\ now = 0
    /\ pc = "idle"
    /\ prev = Absent
    /\ issued = {}
    /\ removed = {}
    /\ dry_run = FALSE
    /\ other = EmptyData
    /\ \/ \E pieces \in Texts : ret = Ret("text", pieces, None, "none", "none")
       \* the texts parse_genres is called with: names of known and of unknown
       \* genres, a short token, the separators and a blank
       \/ LET Genres == {<<"P", "r", "o", "g", "r", "e", "s", "s", "i", "v", "e", " ", "H", "o", "u", "s", "e">>,
                       <<"T", "r", "a", "n", "c", "e">>, <<"H", "o", "u", "s", "e">>,
                       <<"R", "o", "c", "k">>, <<"p", "o", "p">>, <<"a", "b">>,
                       <<" ", "&", " ">>, <<",", " ">>, <<";">>, <<"|">>, <<" ">>,
                       <<"d", "n", "b", " ">>}
          IN \E n \in 0..MaxPieces : \E pieces \in [1..n -> Genres] :
                ret = Ret("genre_text", pieces, None, "none", "none")
       \* the texts parse_date is called with: three fields joined the way each
       \* format joins them, with or without a time of day, and free texts
       \/ LET Parts == {<<"2", "0", "2", "0">>, <<"0", "9", "9", "9">>,
                         <<"1", "9", "9", "9">>, <<"2", "0", "2", "4">>, <<"0", "1">>,
                         <<"0", "2">>, <<"1", "2">>, <<"1", "3">>, <<"3", "0">>, <<"5">>,
                         <<"J", "a", "n", "u", "a", "r", "y">>,
                         <<"f", "e", "b", "r", "u", "a", "r", "y">>}
              Joins == {<<<<"-">>, <<"-">>>>, <<<<"/">>, <<"/">>>>, <<<<" ">>, <<",", " ">>>>,
                        <<<<" ">>, <<" ">>>>}
              Times == {<<>>, <<"T", "1", "0", ":", "1", "1", ":", "1", "2">>,
                        <<"T", "1", "0", ":", "1", "1", ":", "1", "2", "+", "0", "0", "0", "0">>}
              Free == {<<"r", "e", "l", "e", "a", "s", "e", "d", " ", "2", "0", "1", "9">>,
                       <<"x", " ", "1", "2", "0", "2", "0", "5">>,
                       <<"T", "o", "d", "a", "y">>, <<"2", "0", "2", "0">>,
                       <<"1", "9", "9", "9">>, <<"T">>,
                       <<"T", "u", "e", "s", "d", "a", "y", " ", "5", " ", "M", "a", "y", " ", "2", "0", "2", "0">>,
                       <<"2", "0", "2", "0", "-", "0", "1", "-", "0", "2", " ", "1", "0", ":", "0", "0">>,
                       <<"2", "0", "2", "0", "0", "1", "0", "2">>,
                       <<" ", "5", "/", "0", "1", "/", "2", "0", "2", "0">>}
          IN \/ \E a \in Parts, b \in Parts, c \in Parts, join \in Joins, time \in Times :
                   ret = Ret("date_text", <<a, join[1], b, join[2], c, time>>, None,
                             "none", "none")
             \/ \E text \in Free \cup {<<>>} :
                   ret = Ret("date_text", <<text>>, None, "none", "none")
       \* the pages extract_track_metadata is called with, each as the texts of
       \* the elements that carry genres
       \/ LET Fragments == {<<>>, <<"H", "o", "u", "s", "e">>,
                          <<"T", "r", "a", "n", "c", "e", ",", " ", "D", "u", "b", "s", "t", "e", "p">>,
                          <<"T", "r", "a", "p">>,
                          <<" ", "R", "o", "c", "k", " ", "&", " ", "P", "o", "p", " ">>,
                          <<"C", "h", "i", "l", "l", " ", "A", "m", "b", "i", "e", "n", "t", " ", "E", "D", "M">>}
          IN \E n \in 0..MaxPieces : \E texts \in [1..n -> Fragments] :
                ret = Ret("page", texts, None, "none", "none")

(***************************************************************************)
(* SpecParse: the parsers of the downloader applied to a text or a page.   *)
(***************************************************************************)
NextParse == ParseArtists \/ ParseGenres \/ ParseDate \/ ExtractTrackMetadata

SpecParse == InitParse /\ [][NextParse]_vars

(***************************************************************************)
(* Claims.                                                                 *)
(***************************************************************************)
Recs(d) == d.tracks.recs

\* the stored ids whose record is the same item as the candidate: titles
\* equal ignoring case and original_url equal to the candidate's url
SameItem(d, track) ==
    {id \in KeySet(d) : /\ Lower(Recs(d)[id].title) = Lower(track.title)
                        /\ Recs(d)[id].original_url = track.url}

\* C1: track_exists(candidate) returns a non-null id if and only if some
\* stored record has the candidate's title ignoring case and an original_url
\* equal to the candidate's url, and the id it returns is a key of the store
\* whose record satisfies both conditions.
C1_TrackExistsIffSameItem ==
    ret.op = "track_exists" =>
        /\ (ret.val # None) <=> (SameItem(data, ret.arg) # {})
        /\ ret.val # None => ret.val[1] \in SameItem(data, ret.arg)

\* track_exists found a record whose title differs from the candidate's in
\* case only, in a store that also holds the same title under another url
C1_Witness ==
    /\ ret.op = "track_exists"
    /\ ret.val # None
    /\ Recs(data)[ret.val[1]].title # ret.arg.title
    /\ \E id \in KeySet(data) : /\ Recs(data)[id].title = ret.arg.title
                                /\ Recs(data)[id].original_url # ret.arg.url

\* a step of add_track: the only call that sets ret.op to "add_track", and it
\* always advances the clock
AddStep == ret'.op = "add_track" /\ now' = now + 1

\* C2: the id add_track gets from generate_track_id is not a key of the store,
\* so the call overwrites no record and the store grows by exactly one entry.
C2_AddTrackUsesFreeKey ==
    [][AddStep =>
         /\ ret'.val[1] \notin KeySet(data)
         /\ KeySet(data') = KeySet(data) \cup {ret'.val[1]}
         /\ Cardinality(KeySet(data')) = Cardinality(KeySet(data)) + 1
         /\ \A id \in KeySet(data) : Recs(data')[id] = Recs(data)[id]]_vars

\* titles "a", "a", " A -1!": the natural slug of the third, a_1, is the
\* counter-suffixed id of the second, and the third is stored as a_1_1
C2_Witness ==
    /\ ret.op = "add_track"
    /\ ret.arg.title = <<" ", "A", " ", "-", "1", "!">>
    /\ ret.val[1] = Prefix \o <<"a", "_", "1", "_", "1">>
    /\ (Prefix \o <<"a", "_", "1">>) \in KeySet(data)
    /\ Cardinality(KeySet(data)) = 3

\* C3, as claimed: an id that add_track returned and cleanup removed is never
\* returned by a later add_track.
C3_IdNeverReused ==
    [][AddStep => ret'.val[1] \notin (issued \cap removed)]_vars

\* C3, amended: the id add_track returns is decided by the title and the ids
\* that are live: it is never a live id, and it is track_<slug> whenever that
\* key is free, also when that id was returned before and removed since.
C3_IdReusedOnlyWhenFree ==
    [][AddStep =>
         /\ ret'.val[1] \in issued => ret'.val[1] \notin KeySet(data)
         /\ (Prefix \o BaseId(ret'.arg.title)) \notin KeySet(data)
               => ret'.val[1] = Prefix \o BaseId(ret'.arg.title)]_vars

\* add_track has returned an id that an earlier add_track returned and that
\* cleanup removed meanwhile
C3_Witness ==
    /\ ret.op = "add_track"
    /\ ret.val[1] \in removed
    /\ Cardinality(issued) = 1

\* the step is a call of the download pipeline
PipelineStep == ret'.op \in {"download_track", "process_track"}

\* C4: when records enter the store only through the download pipeline, the
\* store never holds two records whose titles are equal ignoring case and
\* whose original_url are equal, and processing a candidate that is the same
\* item as a stored record (its title may differ in case) leaves the store as
\* it was, the one entry under the same id.
C4_PipelineKeepsOneRecordPerItem ==
    /\ [](\A i, j \in KeySet(data) :
             (/\ Lower(Recs(data)[i].title) = Lower(Recs(data)[j].title)
              /\ Recs(data)[i].original_url = Recs(data)[j].original_url) => i = j)
    /\ [][(PipelineStep /\ SameItem(data, ret'.arg) # {}) =>
             /\ data' = data
             /\ SameItem(data', ret'.arg) = SameItem(data, ret'.arg)
             /\ Cardinality(SameItem(data', ret'.arg)) = 1]_vars

\* download_track_with_database returned True for a candidate whose title
\* differs in case only from the stored record of the same page, in a store
\* that also holds that title under another url
C4_Witness ==
    /\ ret.op = "download_track"
    /\ ret.val = Some("True")
    /\ ret.io = "none"
    /\ \E id \in SameItem(data, ret.arg) : Recs(data)[id].title # ret.arg.title
    /\ \E id \in KeySet(data) : /\ Lower(Recs(data)[id].title) = Lower(ret.arg.title)
                                /\ Recs(data)[id].original_url # ret.arg.url

\* C5: after a successful save_database, a fresh TrackDatabase on the same
\* path holds the same set of ids and the same field values for every record.
C5_SaveLoadRoundTrip ==
    [][(ret.op = "save_database" /\ ret.io = "ok" /\ ret'.op = "load_database") =>
         /\ KeySet(data') = KeySet(data)
         /\ Recs(data') = Recs(data)]_vars

\* a store of two records, one of them updated after it was added, has been
\* loaded from the file that holds its dump
C5_Witness ==
    /\ ret.op = "load_database"
    /\ file = JsonDump(data)
    /\ Cardinality(KeySet(data)) = 2
    /\ \E id \in KeySet(data) :
          Recs(data)[id].last_updated # Recs(data)[id].download_timestamp

C8_SaveFailureIsReported ==
    (ret.op = "save_database" /\ ret.io = "failed")
        => (ret.val # None \/ ret.raised # "none")

\* C9: load never raises and leaves a structure with a "tracks" mapping: an
\* absent or malformed file gives the empty store, for both classes, so that
\* the calls that follow can read data["tracks"].
C9_LoadGivesWellFormedStore ==
    /\ ret.op = "load_database" =>
          /\ ret.raised = "none"
          /\ WellFormed(data)
          /\ (file = Absent \/ Malformed(file)) => data = EmptyData
    /\ ret.op = "mgr_load_database" =>
          /\ ret.raised = "none"
          /\ WellFormed(mdata)
          /\ (file = Absent \/ Malformed(file)) => mdata = EmptyData
    /\ ret.op \in {"cleanup_database", "track_exists"} => ret.raised = "none"
\* C11: add_track(candidate) returns an id that the store afterwards maps to
\* a record with the candidate's title, artists, genres and original_url;
\* every entry stored before is unchanged, and neither the persisted file nor
\* its backup is written.
C11_AddTrackFrame ==
    [][AddStep =>
         /\ ret'.val # None
         /\ KeySet(data') = KeySet(data) \cup {ret'.val[1]}
         /\ Recs(data')[ret'.val[1]].title = ret'.arg.title
         /\ Recs(data')[ret'.val[1]].artists = ret'.arg.artists
         /\ Recs(data')[ret'.val[1]].genres = ret'.arg.genres
         /\ Recs(data')[ret'.val[1]].original_url = ret'.arg.url
         /\ \A k \in KeySet(data) : Recs(data')[k] = Recs(data)[k]
         /\ file' = file
         /\ backup' = backup]_vars

\* add_track has returned on a store that held other records, while the
\* persisted file holds an older store
C11_Witness ==
    /\ ret.op = "add_track"
    /\ ret.val # None
    /\ Cardinality(KeySet(data)) >= 2
    /\ file.kind = "json"
    /\ file # JsonDump(data)

\* the position of key k in the iteration order of the tracks dict of d
KeyPos(d, k) == CHOOSE i \in 1..Len(d.tracks.keys) : d.tracks.keys[i] = k

\* the ids of d whose title contains the lower-cased query q, ignoring case
TitleHits(d, q) == {k \in KeySet(d) : IsSubstring(q, Lower(Recs(d)[k].title))}

\* the ids of d with some entry of the list field containing q, ignoring case
ListHits(d, q, field) ==
    {k \in KeySet(d) :
        \E i \in 1..Len(Recs(d)[k][field]) : IsSubstring(q, Lower(Recs(d)[k][field][i]))}

\* the ids the search of the given field has to return
FieldHits(d, q, field) ==
    IF field = "title" THEN TitleHits(d, q)
    ELSE IF field = "artist" THEN ListHits(d, q, "artists")
    ELSE IF field = "genre" THEN ListHits(d, q, "genres")
    ELSE TitleHits(d, q) \cup ListHits(d, q, "artists") \cup ListHits(d, q, "genres")

\* C12: search_tracks(query, field) returns, in store iteration order and
\* each with its track_id added, exactly the records where the lower-cased
\* query is a substring of the lower-cased title (field title), of some artist
\* (field artist) or of some genre (field genre); for field all, exactly the
\* union of the three.
C12_SearchReturnsMatches ==
    ret.op = "search_tracks" =>
        LET res == ret.val[1]
            q == Lower(ret.arg.query)
        IN /\ {res[i].track_id : i \in 1..Len(res)} = FieldHits(mdata, q, ret.arg.field)
           /\ \A i, j \in 1..Len(res) :
                 i < j => KeyPos(mdata, res[i].track_id) < KeyPos(mdata, res[j].track_id)
           /\ \A i \in 1..Len(res) :
                 /\ DOMAIN res[i] = DOMAIN Recs(mdata)[res[i].track_id] \cup {"track_id"}
                 /\ \A f \in DOMAIN Recs(mdata)[res[i].track_id] :
                       res[i][f] = Recs(mdata)[res[i].track_id][f]

\* a search of all fields with an upper-case query returned a record for its
\* artist or genre alone, and left another one out
C12_Witness ==
    /\ ret.op = "search_tracks"
    /\ ret.arg.field = "all"
    /\ ret.arg.query # Lower(ret.arg.query)
    /\ Len(ret.val[1]) >= 1
    /\ Len(ret.val[1]) < Cardinality(KeySet(mdata))
    /\ \E i \in 1..Len(ret.val[1]) :
          ret.val[1][i].track_id \notin TitleHits(mdata, Lower(ret.arg.query))

\* C13: get_tracks_by_year(year) returns exactly the records whose
\* publish_date is not null and starts with the year; a record whose
\* publish_date is null never matches and does not make the call fail.
C13_ByYearSkipsNullDates ==
    ret.op = "get_tracks_by_year" =>
        /\ ret.raised = "none"
        /\ {ret.val[1][i].track_id : i \in 1..Len(ret.val[1])} =
             {k \in KeySet(mdata) : /\ Recs(mdata)[k].publish_date # None
                                    /\ StartsWith(Recs(mdata)[k].publish_date[1], ret.arg)}

\* C14: on an empty store get_stats, get_detailed_stats and generate_report
\* return without raising, and what they return differs from what they
\* return on a store that holds records: a zero total_tracks, the error
\* entry, the 'No tracks in database' text.
C14_EmptyStoreAggregates ==
    /\ ret.op = "get_stats" /\ KeySet(data) = {} =>
          /\ ret.raised = "none"
          /\ ret.val[1].total_tracks = 0
          /\ ret.val[1].total_file_size = 0
          /\ ret.val[1].most_recent_download = <<>>
    /\ ret.op = "get_stats" /\ KeySet(data) # {} /\ ret.raised = "none" =>
          ret.val[1].total_tracks > 0
    /\ ret.op = "get_detailed_stats" /\ KeySet(mdata) = {} =>
          /\ ret.raised = "none"
          /\ DOMAIN ret.val[1] = {"error"}
    /\ ret.op = "get_detailed_stats" /\ KeySet(mdata) # {} /\ ret.raised = "none" =>
          "error" \notin DOMAIN ret.val[1]
    /\ ret.op = "generate_report" /\ KeySet(mdata) = {} =>
          /\ ret.raised = "none"
          /\ ret.val[1].first_line = "No tracks in database"
    /\ ret.op = "generate_report" /\ KeySet(mdata) # {} /\ ret.raised = "none" =>
          ret.val[1].first_line # "No tracks in database"

\* generate_report has returned on an empty store, on a manager opened on a
\* file that a save wrote
C14_Witness ==
    /\ ret.op = "generate_report"
    /\ KeySet(mdata) = {}
    /\ file.kind = "json"
    /\ ret.val # None

\* C15: for every store built by add_track, a record with a null file_size
\* included, get_stats and get_detailed_stats return a result and do not
\* raise.
C15_AggregatesNeverRaise ==
    ret.op \in {"get_stats", "get_detailed_stats"} => ret.raised = "none"

\* the sum of the file_size values of the records ids of d
RECURSIVE SizeSum(_, _)
SizeSum(d, ids) ==
    IF ids = {} THEN 0
    ELSE LET k == CHOOSE k \in ids : TRUE
         IN Recs(d)[k].file_size[1] + SizeSum(d, ids \ {k})

\* the number of times name occurs in the list field of the records ids of d
RECURSIVE Occurrences(_, _, _, _)
Occurrences(d, ids, field, name) ==
    IF ids = {} THEN 0
    ELSE LET k == CHOOSE k \in ids : TRUE
         IN Cardinality({i \in 1..Len(Recs(d)[k][field]) : Recs(d)[k][field][i] = name})
              + Occurrences(d, ids \ {k}, field, name)

\* table lists every name of the list field once, with the number of its
\* occurrences across all records, in non-increasing order of the counts
FrequencyTable(d, table, field) ==
    /\ {table[i][1] : i \in 1..Len(table)} =
         UNION {{Recs(d)[k][field][i] : i \in 1..Len(Recs(d)[k][field])} : k \in KeySet(d)}
    /\ \A i, j \in 1..Len(table) : i # j => table[i][1] # table[j][1]
    /\ \A i \in 1..Len(table) : table[i][2] = Occurrences(d, KeySet(d), field, table[i][1])
    /\ \A i \in 1..(Len(table) - 1) : table[i][2] >= table[i + 1][2]

CleanupStep == ret'.op = "cleanup_database" /\ ret'.raised = "none" /\ ret' # ret

\* the ids of d whose record names a file that is not in the directory disk
MissingIds(d, disk) ==
    {k \in KeySet(d) : /\ Recs(d)[k].file_path # None
                        /\ Recs(d)[k].file_path[1] \notin disk}

\* C17: cleanup removes exactly the records that have a non-null file_path
\* whose file does not exist; every record with a null file_path or an
\* existing file stays with its fields unchanged; of the counts it returns,
\* total is the number of records before the cleanup and missing_files and
\* removed are the number of records removed.
C17_CleanupRemovesMissing ==
    [][CleanupStep =>
         /\ KeySet(mdata') = KeySet(mdata) \ MissingIds(mdata, files)
         /\ \A k \in KeySet(mdata') : Recs(mdata')[k] = Recs(mdata)[k]
         /\ ret'.val[1].total = Cardinality(KeySet(mdata))
         /\ ret'.val[1].missing_files = Cardinality(MissingIds(mdata, files))
         /\ ret'.val[1].removed = Cardinality(KeySet(mdata)) - Cardinality(KeySet(mdata'))
         /\ ret'.val[1].removed = ret'.val[1].missing_files]_vars

\* cleanup has removed a record and kept one without a file_path
C17_Witness ==
    /\ ret.op = "cleanup_database"
    /\ ret.val # None
    /\ ret.val[1].removed >= 1
    /\ ret.val[1].total >= 2
    /\ \E k \in KeySet(mdata) : Recs(mdata)[k].file_path = None

\* C18: cleanup writes the persisted file if and only if it removed a record:
\* when every non-null file_path exists it removes nothing, leaves the store
\* in memory as it was and does not write the file; when it removed a record
\* the file holds the cleaned store afterwards.
C18_CleanupSavesIffRemoved ==
    [][CleanupStep =>
         /\ MissingIds(mdata, files) = {} =>
               /\ mdata' = mdata
               /\ file' = file
               /\ backup' = backup
               /\ ret'.val[1].removed = 0
         /\ MissingIds(mdata, files) # {} =>
               /\ ret'.val[1].removed > 0
               /\ file' = JsonDump(mdata')]_vars

\* cleanup has returned without removing anything from a store that holds a
\* record with an existing file, while the persisted file holds another store
C18_Witness ==
    /\ ret.op = "cleanup_database"
    /\ ret.val # None
    /\ ret.val[1].removed = 0
    /\ \E k \in KeySet(mdata) : /\ Recs(mdata)[k].file_path # None
                                 /\ Recs(mdata)[k].file_path[1] \in files
    /\ file.kind = "json"
    /\ file # JsonDump(mdata)

\* p is a name: not empty, no blank at either end, no separator inside, and
\* not one of the stop words
AtomicName(p) ==
    /\ p # <<>>
    /\ StripWs(p) = p
    /\ \A i \in 1..Len(Separators) : ~IsSubstring(Separators[i], p)
    /\ Lower(p) \notin StopWords

\* the pieces are names joined by separators
JoinedNames(pieces) ==
    /\ Len(pieces) % 2 = 1
    /\ \A i \in 1..Len(pieces) :
          IF i % 2 = 1 THEN AtomicName(pieces[i])
          ELSE \E j \in 1..Len(Separators) : pieces[i] = Separators[j]

\* the names of a text of joined names, in order
NamesOf(pieces) == [i \in 1..((Len(pieces) + 1) \div 2) |-> pieces[2 * i - 1]]

\* C19: parse_artists applied to n names joined by the recognised separators
\* returns exactly those names when n <= 5 and the first 5 when n > 5; 'A & B
\* & C' and 'Artist1 & Artist2 & Artist3' give 3 entries, and a single name,
\* one that begins with 'by' or 'artist' included, gives that name alone.
C19_ParseArtistsReturnsNames ==
    ret.op = "parse_artists" /\ JoinedNames(ret.arg) =>
        ret.val[1] = Take(NamesOf(ret.arg), 5)

\* the entries may not contain a separator, be blank at an end, be a single
\* character or be a stop word
CleanEntry(entry) ==
    /\ entry # <<>>
    /\ StripWs(entry) = entry
    /\ Len(entry) > 1
    /\ Lower(entry) \notin StopWords
    /\ \A i \in 1..Len(Separators) : ~IsSubstring(Separators[i], entry)

\* C20: for every text, parse_artists returns without raising a list of at
\* most 5 entries, none of them empty, blank at an end, a single character, a
\* stop word ('the', 'a', 'an' in any case) or holding one of the separators.
C20_ParseArtistsEntriesClean ==
    ret.op = "parse_artists" =>
        /\ ret.raised = "none"
        /\ Len(ret.val[1]) <= 5
        /\ \A i \in 1..Len(ret.val[1]) : CleanEntry(ret.val[1][i])

\* parse_artists cut a text of more than five names down to five entries
C20_Witness ==
    /\ ret.op = "parse_artists"
    /\ Len(ret.arg) > 10
    /\ Len(ret.val[1]) = 5

\* the known categories a text names: the vocabulary entries that one of its
\* pieces spells, in any case
NamedGenres(pieces) ==
    {genre \in Range(KnownGenres) :
        \E i \in 1..Len(pieces) : Lower(StripWs(pieces[i])) = Lower(genre)}

\* C21: when the text names at least one known category, parse_genres returns
\* exactly the known categories named in it (at most 3) and no fallback
\* token, so 'Progressive House & Trance' gives {Progressive House, Trance};
\* only when no known category is named does it return title-cased tokens
\* longer than 2 characters, at most 3 of them.
C21_ParseGenresReturnsNamedCategories ==
    ret.op = "parse_genres" =>
        /\ Len(ret.val[1]) <= 3
        /\ NamedGenres(ret.arg) # {} /\ Cardinality(NamedGenres(ret.arg)) <= 3 =>
               Range(ret.val[1]) = NamedGenres(ret.arg)
        /\ NamedGenres(ret.arg) = {} =>
               \A i \in 1..Len(ret.val[1]) :
                  Len(ret.val[1][i]) > 2 /\ ret.val[1][i] \notin Range(KnownGenres)

\* s has the shape YYYY-MM-DD
DateShape(s) ==
    /\ Len(s) = 10
    /\ s[5] = "-" /\ s[8] = "-"
    /\ \A i \in {1, 2, 3, 4, 6, 7, 9, 10} : \E d \in 1..10 : s[i] = DigitChars[d]

\* C22: parse_date tries its formats in order and the first that parses wins,
\* so an ISO date or date-time gives its date part and a slash date that is
\* valid both ways is read as DD/MM/YYYY; the call never raises and its
\* result is always null or a string of shape YYYY-MM-DD.
C22_ParseDateShape ==
    ret.op = "parse_date" =>
        /\ ret.raised = "none"
        /\ ret.val # None => DateShape(ret.val[1])
        /\ /\ Len(ret.arg) = 6 /\ ret.arg[2] = <<"/">> /\ ret.arg[4] = <<"/">>
           /\ ret.arg[1] \in {<<"0", "1">>, <<"0", "2">>, <<"1", "2">>}
           /\ ret.arg[3] \in {<<"0", "1">>, <<"0", "2">>, <<"1", "2">>}
           /\ Len(ret.arg[5]) = 4
           => ret.val = Some(ret.arg[5] \o <<"-">> \o ret.arg[3] \o <<"-">> \o ret.arg[1])

\* C23: every record extract_track_metadata produces has at least 1 and at
\* most 3 genres, however many page fragments contribute genres; 'Electronic'
\* is the default when no fragment yields one.
C23_ExtractedGenresBetweenOneAndThree ==
    ret.op = "extract_track_metadata" =>
        /\ Cardinality(ret.val[1].genres) \in 1..3
        /\ (\A i \in 1..Len(ret.arg) : StripWs(ret.arg[i]) = <<>>) =>
               ret.val[1].genres = {<<"E", "l", "e", "c", "t", "r", "o", "n", "i", "c">>}

\* the fields add_track sets once: original_url and download_timestamp
Origin(rec) == <<rec.original_url, rec.download_timestamp>>

\* C24: a record keeps the original_url and the download_timestamp add_track
\* gave it through every later operation on the store: update_track changes
\* the other fields and last_updated of its own record only, and a save
\* writes both fields as they are, so that a load brings them back.
C24_OriginFieldsKept ==
    [][/\ ret'.op # "load_database" =>
             \A k \in KeySet(data) \cap KeySet(data') :
                Origin(Recs(data')[k]) = Origin(Recs(data)[k])
       /\ ret'.op = "update_track" =>
             /\ KeySet(data') = KeySet(data)
             /\ \A k \in KeySet(data) \ {ret'.arg} : Recs(data')[k] = Recs(data)[k]
       /\ file' # file /\ file'.kind = "json" =>
             /\ KeySet(LoadTrackDatabase(file')) = KeySet(data)
             /\ \A k \in KeySet(data) :
                   Origin(Recs(LoadTrackDatabase(file'))[k]) = Origin(Recs(data)[k])
      ]_vars

\* update_track was given a track with another url, later than the creation
\* of the record it changed
C24_Witness ==
    /\ ret.op = "update_track"
    /\ ret.arg \in KeySet(data)
    /\ Recs(data)[ret.arg].url # Recs(data)[ret.arg].original_url
    /\ Recs(data)[ret.arg].last_updated > Recs(data)[ret.arg].download_timestamp
    /\ file.kind = "json"
    /\ ret.arg \in KeySet(LoadTrackDatabase(file))

\* C25: when instances on one path each run a whole cycle of load, add_track
\* and save, one after another, the store loaded afterwards holds every
\* record any of them added, each under the id its add_track returned.
C25_SequentialCyclesKeepEveryRecord ==
    ret.op = "save_database" /\ ret.io = "ok" =>
        LET loaded == LoadTrackDatabase(file) IN
          /\ KeySet(loaded) = issued
          /\ Cardinality(issued) = now
          /\ {Recs(loaded)[k].download_timestamp : k \in issued} = 0..(now - 1)
          /\ \A k \in issued : Recs(loaded)[k] = Recs(data)[k]

\* a second instance has saved: the backup is the file the first one wrote,
\* with the records of the first cycle only
C25_Witness ==
    /\ ret.op = "save_database" /\ ret.io = "ok"
    /\ backup.kind = "json"
    /\ KeySet(LoadTrackDatabase(backup)) # {}
    /\ KeySet(LoadTrackDatabase(backup)) # issued
    /\ KeySet(LoadTrackDatabase(file)) = issued

\* the records of store d, whatever their ids
RecordsOf(d) == {Recs(d)[k] : k \in KeySet(d)}

\* both instances have added a record and both have saved: the file is the
\* one the instance that holds the lock wrote, over the one the other wrote
BothAddedAndSaved ==
    /\ ret.op = "save_database" /\ ret.io = "ok"
    /\ KeySet(data) # {} /\ KeySet(other) # {}
    /\ backup = JsonDump(other)

\* C26 as stated: with each add_track and each save_database under the lock
\* and the load done at construction, once both instances have added a record
\* and saved, the persisted store holds the records of both.
C26_LockPerCallKeepsBothRecords ==
    BothAddedAndSaved =>
        RecordsOf(data) \cup RecordsOf(other) \subseteq RecordsOf(LoadTrackDatabase(file))

\* C26: with the lock held for one call at a time, the persisted store is,
\* after every completed save, the store of the instance that saved, so of two
\* instances that added and saved the one that saves last decides what the
\* file holds.
C26_LastSaveWins ==
    ret.op = "save_database" /\ ret.io = "ok" =>
        /\ KeySet(LoadTrackDatabase(file)) = KeySet(data)
        /\ \A k \in KeySet(data) : Recs(LoadTrackDatabase(file))[k] = Recs(data)[k]

\* both instances added and saved, and a record the first to save had added
\* is not in the file
C26_Witness ==
    /\ BothAddedAndSaved
    /\ \E rec \in RecordsOf(other) : rec \notin RecordsOf(LoadTrackDatabase(file))

\* the slug of a title: its alphanumeric characters in lower case, every
\* maximal run of other characters between two of them one underscore, and
\* nothing for a run at either end
Slug(title) ==
    LET RECURSIVE SlugFrom(_, _, _)
        \* out is the slug so far, gap whether a run has been passed since
        SlugFrom(s, out, gap) ==
            IF s = <<>> THEN out
            ELSE IF ~IsAlnum(s[1]) THEN SlugFrom(Tail(s), out, TRUE)
            ELSE SlugFrom(Tail(s),
                          (IF gap /\ out # <<>> THEN out \o <<"_">> ELSE out)
                             \o <<LowerChar(s[1])>>,
                          FALSE)
    IN SlugFrom(title, <<>>, FALSE)

\* C27: generate_track_id returns 'track_' + slug when that key is free and
\* otherwise 'track_<slug>_<k>' for the smallest k >= 1 whose key is free, k
\* being at most the number of stored records; the record of an earlier track
\* with the same title stays as it is under its own id.
C27_IdIsSlugWithSmallestFreeCounter ==
    [][AddStep =>
         LET base == Prefix \o Slug(ret'.arg.title)
             Suffixed(k) == base \o <<"_">> \o Str(k)
         IN /\ base \notin KeySet(data) => ret'.val[1] = base
            /\ base \in KeySet(data) =>
                  \E k \in 1..Cardinality(KeySet(data)) :
                     /\ ret'.val[1] = Suffixed(k)
                     /\ Suffixed(k) \notin KeySet(data)
                     /\ \A j \in 1..(k - 1) : Suffixed(j) \in KeySet(data)
            /\ \A id \in KeySet(data) :
                  ret'.val[1] # id /\ id \in KeySet(data') /\ Recs(data')[id] = Recs(data)[id]
      ]_vars

\* the third track titled "a", from another page than the first: the keys
\* track_a and track_a_1 are taken and it is stored under track_a_2
C27_Witness ==
    /\ ret.op = "add_track"
    /\ ret.arg.title = <<"a">> /\ ret.arg.url = "u2"
    /\ ret.val[1] = Prefix \o <<"a", "_", "2">>
    /\ (Prefix \o <<"a">>) \in KeySet(data)
    /\ Recs(data)[Prefix \o <<"a">>].original_url = "u1"
    /\ Recs(data)[ret.val[1]].original_url = "u2"

\* the operations that only read the store
ReadOps ==
    {"search_tracks", "get_tracks_by_year", "get_detailed_stats", "get_stats", "track_exists"}

\* C28: search_tracks, get_tracks_by_year, get_detailed_stats, get_stats and
\* track_exists leave the stores in memory and the persisted file as they
\* were, whether they return or raise; the track_id a search puts into a
\* result is not put into the stored record.
C28_ReadsChangeNothing ==
    [][ret'.op \in ReadOps =>
         /\ data' = data /\ mdata' = mdata
         /\ file' = file /\ backup' = backup /\ files' = files
         /\ \A k \in KeySet(mdata') : "track_id" \notin DOMAIN Recs(mdata')[k]
      ]_vars

\* a search returned a record with its track_id, and the stored record and
\* the file are without it
C28_Witness ==
    /\ ret.op = "search_tracks"
    /\ ret.val[1] # <<>>
    /\ ret.val[1][1].track_id \in KeySet(mdata)
    /\ "track_id" \notin DOMAIN Recs(mdata)[ret.val[1][1].track_id]
    /\ file = JsonDump(mdata)

====
